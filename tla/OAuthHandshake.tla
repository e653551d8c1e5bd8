--------------------------- MODULE OAuthHandshake ---------------------------
(***************************************************************************)
(* The OAuth handshake of internal/handlers/oauth_handler.go and the part  *)
(* of internal/services/oauth_service.go that talks to the provider.  A    *)
(* browser has one cookie "oauth_state" for both providers and all tabs;   *)
(* cookies go out with a request when it is sent and change when a         *)
(* response arrives, in whatever order responses arrive.  The Google and   *)
(* the GitHub handlers are the same but for the provider.                  *)
(*                                                                         *)
(* A state is a fresh random value, so it is named by the handshake it was *)
(* generated for; an authorization code is named likewise.  The provider   *)
(* and the browser are outside the repository: the provider honours a code *)
(* once, and the user may open a callback's address again, or elsewhere.   *)
(***************************************************************************)
EXTENDS FiniteSetsExt, Sequences

CONSTANTS
  Handshakes,  \* calls of /api/auth/{google,github}/login
  Callbacks,   \* calls of /api/auth/{google,github}/callback
  Browsers,
  Reports,     \* what a provider may say of its user
  Nil          \* an empty or missing value

Providers == {"google", "github"}

\* An address as GitHub lists it; which address it is does not matter here.
Address == [primary : BOOLEAN, verified : BOOLEAN]

\* GoogleUserInfo, or GitHubUserInfo with the answer of /user/emails.
Report == [email : Address \cup {Nil}, listed : Seq(Address)]

ASSUME HandshakeAssumption ==
  /\ Reports \subseteq Report
  /\ Nil \notin Handshakes \cup Callbacks \cup Browsers \cup Address \cup Reports

\* How the state of a handshake left the browser it was set in.
Fates == {"overtaken", "expired", "answered"}

Login == [phase : {"idle", "answered", "away", "back", "failed"},
          browser : Browsers \cup {Nil}, provider : Providers \cup {Nil}]

Callback ==
  [phase    : {"idle", "exchange", "profile", "emails", "user", "responded",
               "done"},
   browser  : Browsers \cup {Nil},
   provider : Providers \cup {Nil},
   state    : Handshakes \cup {Nil},   \* the query's state
   code     : Handshakes \cup {Nil},   \* and code
   cookie   : Handshakes \cup {Nil},   \* the oauth_state that came along
   fate     : SUBSET Fates,            \* history: the state's fate when sent
   report   : Reports \cup {Nil},      \* what the provider said
   address  : Address \cup {Nil},      \* and the address taken from it
   answer   : {"none", "unauthorized", "error", "ok"}]

NoCallback ==
  [phase |-> "idle", browser |-> Nil, provider |-> Nil, state |-> Nil, code |-> Nil,
   cookie |-> Nil, fate |-> {}, report |-> Nil, address |-> Nil, answer |-> "none"]

VARIABLES
  login,     \* each handshake's first half
  callback,  \* each call of a callback address
  cookie,    \* each browser's oauth_state
  code,      \* each handshake's authorization code at the provider
  fate       \* history: how each handshake's state left its browser

vars == <<login, callback, cookie, code, fate>>

TypeOK ==
  /\ login \in [Handshakes -> Login]
  /\ callback \in [Callbacks -> Callback]
  /\ \A k \in Callbacks :
       callback[k].phase = "user" /\ callback[k].provider = "github" =>
         callback[k].address # Nil
  /\ cookie \in [Browsers -> Handshakes \cup {Nil}]
  /\ code \in [Handshakes -> {"none", "denied", "issued", "spent"}]
  /\ fate \in [Handshakes -> SUBSET Fates]

Init ==
  /\ login = [h \in Handshakes |-> [phase |-> "idle", browser |-> Nil, provider |-> Nil]]
  /\ callback = [k \in Callbacks |-> NoCallback]
  /\ cookie = [b \in Browsers |-> Nil]
  /\ code = [h \in Handshakes |-> "none"]
  /\ fate = [h \in Handshakes |-> {}]

----------------------------------------------------------------------------
(* The first half: GoogleLogin, GitHubLogin, and the visit to the provider *)

\* The handler generates a state and answers with the cookie and a redirect,
\* or with 500 when the random source fails.
StartLogin(h) ==
  /\ login[h].phase = "idle"
  /\ \E b \in Browsers, p \in Providers, phase \in {"answered", "failed"} :
       login' = [login EXCEPT ![h] = [phase |-> phase, browser |-> b, provider |-> p]]
  /\ UNCHANGED <<callback, cookie, code, fate>>

\* What a new value of the browser's cookie does to the state it held.
Displaced(b, by, h) == cookie[b] = h /\ h # by

\* setStateCookie takes effect where the response arrives.
ArriveLogin(h) ==
  LET b == login[h].browser IN
  /\ login[h].phase = "answered"
  /\ login' = [login EXCEPT ![h].phase = "away"]
  /\ cookie' = [cookie EXCEPT ![b] = h]
  /\ fate' = [g \in Handshakes |->
                fate[g] \cup IF Displaced(b, h, g) THEN {"overtaken"} ELSE {}]
  /\ UNCHANGED <<callback, code>>

\* The user agrees, or not, and is sent to the callback address.
Return(h) ==
  /\ login[h].phase = "away"
  /\ login' = [login EXCEPT ![h].phase = "back"]
  /\ \E c \in {"issued", "denied"} : code' = [code EXCEPT ![h] = c]
  /\ UNCHANGED <<callback, cookie, fate>>

\* maxAge: ten minutes.
ExpireCookie(b) ==
  /\ cookie[b] # Nil
  /\ cookie' = [cookie EXCEPT ![b] = Nil]
  /\ fate' = [fate EXCEPT ![cookie[b]] = @ \cup {"expired"}]
  /\ UNCHANGED <<login, callback, code>>

----------------------------------------------------------------------------
(* The second half: GoogleCallback, GitHubCallback *)

\* The addresses a browser can open: one a provider sent it to, once more or in
\* another browser too, or the bare callback address.
Addresses ==
  {[NoCallback EXCEPT !.provider = login[h].provider, !.state = h,
      !.code = IF code[h] = "denied" THEN Nil ELSE h, !.fate = fate[h]] :
     h \in {g \in Handshakes : login[g].phase = "back"}}
  \cup {[NoCallback EXCEPT !.provider = p] : p \in Providers}

\* The browser b opens an address.
Request(address, b) == [address EXCEPT !.browser = b, !.cookie = cookie[b]]

\* Mutant: an empty state equals the cookie that is not there.
StateMatchesOrEmpty(c) == c.state = c.cookie

\* The negation of: state == "" || state != cookieState
StateMatches(c) == c.state # Nil /\ c.state = c.cookie

\* The request goes out with the browser's cookie; what the handler does first
\* depends on the request alone.
ReceiveCallback(k) ==
  /\ callback[k].phase = "idle"
  /\ \E b \in Browsers, address \in Addresses :
       LET c == Request(address, b) IN
       callback' = [callback EXCEPT ![k] =
         IF StateMatches(c) THEN [c EXCEPT !.phase = "exchange"]
         ELSE [c EXCEPT !.phase = "responded", !.answer = "unauthorized"]]
  /\ UNCHANGED <<login, cookie, code, fate>>

Continue(k, phase) == callback' = [callback EXCEPT ![k].phase = phase]

Respond(k, answer) ==
  callback' = [callback EXCEPT ![k].phase = "responded", ![k].answer = answer]

\* Whether the provider gives a token for the code.
Honours(c) == c # Nil /\ code[c] = "issued"

Spend(c) == code' = IF c = Nil THEN code ELSE [code EXCEPT ![c] = "spent"]

\* Mutant: the error of Exchange is dropped.
ExchangeUnchecked(k) ==
  /\ callback[k].phase = "exchange"
  /\ Spend(callback[k].code)
  /\ Continue(k, "profile")
  /\ UNCHANGED <<login, cookie, fate>>

\* Exchange may fail on the way, whether or not the code was spent.
Exchange(k) ==
  LET c == callback[k].code IN
  /\ callback[k].phase = "exchange"
  /\ \/ Honours(c) /\ Spend(c) /\ Continue(k, "profile")
     \/ Spend(c) /\ Respond(k, "error")
     \/ UNCHANGED code /\ Respond(k, "error")
  /\ UNCHANGED <<login, cookie, fate>>

\* The user-info request, which may fail.  GitHub's answer may come without an
\* address.  Google's is taken as it is, VerifiedEmail unread; the status is not
\* looked at either, and a refusal in JSON decodes to a profile without address.
FetchProfile(k) ==
  /\ callback[k].phase = "profile"
  /\ \/ Respond(k, "error")
     \/ \E report \in Reports :
          callback' = [callback EXCEPT
            ![k].report = report, ![k].address = report.email,
            ![k].phase = IF report.email = Nil /\ callback[k].provider = "github"
                         THEN "emails" ELSE "user"]
  /\ UNCHANGED <<login, cookie, code, fate>>

\* Mutant: the first address that is primary or verified.
PrimaryOrVerified(listed) ==
  LET good == {i \in DOMAIN listed : listed[i].primary \/ listed[i].verified} IN
  IF good # {} THEN listed[Min(good)] ELSE IF listed # <<>> THEN listed[1] ELSE Nil

\* fetchGitHubPrimaryEmail: the first address that is primary and verified,
\* or else the first one, whatever it is.
PrimaryEmail(listed) ==
  LET good == {i \in DOMAIN listed : listed[i].primary /\ listed[i].verified} IN
  IF good # {} THEN listed[Min(good)] ELSE IF listed # <<>> THEN listed[1] ELSE Nil

\* Mutant: the error of fetchGitHubPrimaryEmail is dropped.
FetchEmailsUnchecked(k) ==
  /\ callback[k].phase = "emails"
  /\ callback' = [callback EXCEPT ![k].phase = "user",
                                  ![k].address = PrimaryEmail(callback[k].report.listed)]
  /\ UNCHANGED <<login, cookie, code, fate>>

FetchEmails(k) ==
  LET found == PrimaryEmail(callback[k].report.listed) IN
  /\ callback[k].phase = "emails"
  /\ \/ Respond(k, "error")
     \/ found # Nil /\ callback' = [callback EXCEPT ![k].phase = "user", ![k].address = found]
  /\ UNCHANGED <<login, cookie, code, fate>>

\* findOrCreateUser, statement by statement in OAuthService; a conflict is one
\* of its errors here.
SignIn(k) ==
  /\ callback[k].phase = "user"
  /\ \E answer \in {"ok", "error"} : Respond(k, answer)
  /\ UNCHANGED <<login, cookie, code, fate>>

\* Whether the handler had got past the comparison of the states.
Accepted(k) ==
  \/ callback[k].phase \in {"exchange", "profile", "emails", "user"}
  \/ callback[k].answer \in {"ok", "error"}

\* Mutant: the cookie is cleared before the states are compared.
ClearsAlways(k) == TRUE

\* Mutant: the cookie is not cleared.
ClearsNever(k) == FALSE

\* clearStateCookie comes after the comparison, and goes out with any answer
\* that follows.
Clears(k) == Accepted(k)

\* The response arrives, or is lost.
ArriveCallback(k) ==
  LET b == callback[k].browser
      h == callback[k].state IN
  /\ callback[k].phase = "responded"
  /\ callback' = [callback EXCEPT ![k].phase = "done"]
  /\ \/ /\ cookie' = IF Clears(k) THEN [cookie EXCEPT ![b] = Nil] ELSE cookie
        /\ fate' = [g \in Handshakes |->
                      fate[g] \cup
                        IF ~Accepted(k) THEN {}
                        ELSE IF g = h THEN {"answered"}
                        ELSE IF Displaced(b, Nil, g) THEN {"overtaken"} ELSE {}]
     \/ UNCHANGED <<cookie, fate>>
  /\ UNCHANGED <<login, code>>

----------------------------------------------------------------------------
Next ==
  \/ \E h \in Handshakes : StartLogin(h) \/ ArriveLogin(h) \/ Return(h)
  \/ \E b \in Browsers : ExpireCookie(b)
  \/ \E k \in Callbacks :
       \/ ReceiveCallback(k) \/ Exchange(k) \/ FetchProfile(k)
       \/ FetchEmails(k) \/ SignIn(k) \/ ArriveCallback(k)

Spec == Init /\ [][Next]_vars

----------------------------------------------------------------------------
\* A callback gets past the handler's comparison only in the browser that
\* started the handshake its state belongs to, whichever of the browser's tabs
\* and providers wrote the one cookie last.
AcceptedWhereStarted ==
  \A k \in Callbacks : Accepted(k) =>
    /\ callback[k].state # Nil
    /\ login[callback[k].state].browser = callback[k].browser

\* A handshake signs in at most once, though its callback may be repeated and
\* the repetition may overtake the clearing of the cookie.
OneSignInPerHandshake ==
  \A j, k \in Callbacks :
    callback[j].answer = "ok" /\ callback[k].answer = "ok"
      /\ callback[j].state = callback[k].state => j = k

\* Once the answer to an accepted callback has arrived, its state is used up:
\* no callback sent with it afterwards is accepted.
StateUsedUp ==
  \A k \in Callbacks : "answered" \in callback[k].fate => ~Accepted(k)

\* A callback is refused, in the browser that started its handshake, only if
\* the cookie had expired, the state was used up, or another handshake of that
\* browser had come in between: the cookie survives callbacks that are refused.
RefusedForAReason ==
  \A k \in Callbacks :
    /\ callback[k].answer = "unauthorized"
    /\ callback[k].state # Nil
    /\ login[callback[k].state].browser = callback[k].browser
    => callback[k].fate # {}

\* A GitHub user without public address who has a primary address that is
\* verified signs in with such a one.
VerifiedPrimaryWins ==
  \A k \in Callbacks :
    /\ callback[k].answer = "ok" /\ callback[k].provider = "github"
    /\ callback[k].report.email = Nil
    /\ \E i \in DOMAIN callback[k].report.listed :
         LET a == callback[k].report.listed[i] IN a.primary /\ a.verified
    => callback[k].address.primary /\ callback[k].address.verified

\* "the OAuth provider already verified it" (oauth_service.go:197): an address
\* that is stored as verified was verified by the provider.
ProviderVerifiedIt ==
  \A k \in Callbacks :
    callback[k].answer = "ok" => callback[k].address # Nil /\ callback[k].address.verified
=============================================================================
