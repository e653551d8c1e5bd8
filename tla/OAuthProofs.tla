---------------------------- MODULE OAuthProofs -----------------------------
(***************************************************************************)
(* The OAuth handshake, for any number of handshakes, callbacks and        *)
(* browsers and whatever providers report: what the state cookie is good   *)
(* for.                                                                    *)
(***************************************************************************)
EXTENDS OAuthHandshake, WellFoundedInduction, TLAPS

USE HandshakeAssumption

\* The cookie of the handshake has been set.
Set(h) == h \in Handshakes /\ login[h].phase \in {"away", "back"}

\* The state was generated for this browser.
From(h, b) == Set(h) /\ login[h].browser = b

\* Cookies, and the cookies sent along, are where their handshake was started.
CookiesAtHome ==
  /\ \A b \in Browsers : cookie[b] # Nil => From(cookie[b], b)
  /\ \A k \in Callbacks :
       callback[k].cookie # Nil => From(callback[k].cookie, callback[k].browser)

\* A callback is past the comparison only with the state of its cookie.
AcceptedMatch ==
  \A k \in Callbacks : Accepted(k) => StateMatches(callback[k])

\* A state that has left its browser has a fate, and one that has not is there.
FatesTold ==
  \A h \in Handshakes :
    /\ login[h].phase # "idle" => login[h].browser \in Browsers
    /\ ~Set(h) => fate[h] = {}
    /\ Set(h) /\ fate[h] = {} => cookie[login[h].browser] = h
    /\ "answered" \in fate[h] => \A b \in Browsers : cookie[b] # h

\* A handler that is running has not answered.
RunningUnanswered ==
  \A k \in Callbacks :
    callback[k].phase \notin {"responded", "done"} => callback[k].answer = "none"

\* The list of addresses is asked for after the profile.
EmailsReported ==
  \A k \in Callbacks : callback[k].phase = "emails" => callback[k].report # Nil

\* What a callback was sent with explains how it was received.
ReceptionTold == StateUsedUp /\ RefusedForAReason

\* The provider has taken the callback's code.
Exchanged(k) ==
  callback[k].phase \in {"profile", "emails", "user"} \/ callback[k].answer = "ok"

\* A callback's code is the one of its state, and it was the provider that sent
\* the state along; a code is issued after the cookie
\* is set, once, and taken once.
CodesOnce ==
  /\ \A h \in Handshakes : code[h] # "none" => login[h].phase = "back"
  /\ \A k \in Callbacks :
       /\ callback[k].code # Nil => callback[k].code = callback[k].state
       /\ callback[k].state # Nil => login[callback[k].state].phase = "back"
  /\ \A k \in Callbacks :
       Exchanged(k) => callback[k].code # Nil /\ code[callback[k].code] = "spent"
  /\ \A j, k \in Callbacks :
       Exchanged(j) /\ Exchanged(k) /\ callback[j].code = callback[k].code => j = k

\* The inductive invariant.
OAuthInv ==
  /\ TypeOK /\ RunningUnanswered /\ EmailsReported
  /\ CookiesAtHome /\ AcceptedMatch /\ FatesTold /\ ReceptionTold /\ CodesOnce

----------------------------------------------------------------------------
(* What a GitHub user's address is. *)

\* A set of natural numbers that is not empty has a least element.
LEMMA MinIsIn ==
  ASSUME NEW S \in SUBSET Nat, S # {}
  PROVE  Min(S) \in S
  <1>1. OpToRel(<, Nat) = {ss \in Nat \X Nat : ss[1] < ss[2]}
    BY Zenon DEF OpToRel
  <1>2. PICK R : R = {ss \in Nat \X Nat : ss[1] < ss[2]} /\ IsWellFoundedOn(R, Nat)
    BY <1>1, NatLessThanWellFounded
  <1>3. PICK x \in S : \A y \in S : <<y, x>> \notin R
    BY <1>2, WFMin
  <1>4. \A y, z \in Nat : y < z => <<y, z>> \in {ss \in Nat \X Nat : ss[1] < ss[2]}
    OBVIOUS
  <1>5. \A y \in S : ~(y < x)
    BY <1>2, <1>3, <1>4
  <1>6. \A y \in S : x <= y
    BY <1>5
  <1> QED BY <1>6 DEF Min

\* The address taken from a list is one of the list, if it has any.
LEMMA PrimaryEmailListed ==
  ASSUME NEW listed \in Seq(Address)
  PROVE  PrimaryEmail(listed) \in Address \cup {Nil}
  <1> DEFINE good == {i \in DOMAIN listed : listed[i].primary /\ listed[i].verified}
  <1>1. good \in SUBSET Nat /\ good \subseteq DOMAIN listed
    OBVIOUS
  <1>2. good # {} => Min(good) \in good
    BY <1>1, MinIsIn
  <1>3. \A i \in DOMAIN listed : listed[i] \in Address
    OBVIOUS
  <1>4. listed # <<>> => 1 \in DOMAIN listed
    OBVIOUS
  <1>5. PrimaryEmail(listed) = IF good # {} THEN listed[Min(good)]
                               ELSE IF listed # <<>> THEN listed[1] ELSE Nil
    BY DEF PrimaryEmail
  <1> HIDE DEF good
  <1> QED BY <1>1, <1>2, <1>3, <1>4, <1>5

----------------------------------------------------------------------------
(* How a handler goes on. *)

\* What was sent with a callback stays as it was.
SameRequest(k) ==
  /\ callback'[k].browser = callback[k].browser
  /\ callback'[k].provider = callback[k].provider
  /\ callback'[k].state = callback[k].state
  /\ callback'[k].code = callback[k].code
  /\ callback'[k].cookie = callback[k].cookie
  /\ callback'[k].fate = callback[k].fate

\* The handler of k goes on to the phase p, having given the answer a.
Proceeds(k, p, a) ==
  /\ callback' \in [Callbacks -> Callback]
  /\ \A j \in Callbacks : SameRequest(j)
  /\ \A j \in Callbacks \ {k} : callback'[j] = callback[j]
  /\ callback'[k].phase = p
  /\ callback'[k].answer = a
  /\ p = "user" /\ callback[k].provider = "github" => callback'[k].address # Nil
  /\ p = "emails" => callback'[k].report # Nil

\* The answers, and the phases after them.
Outcomes == {"unauthorized", "error", "ok"}

\* Each way a handler goes on.
LEMMA ProceedForms ==
  ASSUME TypeOK, NEW k \in Callbacks
  PROVE  /\ Continue(k, "profile") => Proceeds(k, "profile", callback[k].answer)
         /\ \A a \in Outcomes : Respond(k, a) => Proceeds(k, "responded", a)
         /\ callback' = [callback EXCEPT ![k].phase = "done"]
              => Proceeds(k, "done", callback[k].answer)
  <1>1. callback \in [Callbacks -> Callback] /\ callback[k] \in Callback
    BY DEF TypeOK
  <1>2. ASSUME NEW p \in {"profile", "done"}, callback' = [callback EXCEPT ![k].phase = p]
        PROVE  Proceeds(k, p, callback[k].answer)
    <2>1. callback' = [callback EXCEPT ![k] = [callback[k] EXCEPT !.phase = p]]
      BY <1>2
    <2>2. [callback[k] EXCEPT !.phase = p] \in Callback
      BY <1>1 DEF Callback
    <2> QED BY <1>1, <2>1, <2>2 DEF Proceeds, SameRequest, Callback
  <1>3. ASSUME NEW a \in Outcomes, Respond(k, a)
        PROVE  Proceeds(k, "responded", a)
    <2>1. callback' = [callback EXCEPT
                         ![k] = [callback[k] EXCEPT !.phase = "responded", !.answer = a]]
      BY <1>3 DEF Respond
    <2>2. [callback[k] EXCEPT !.phase = "responded", !.answer = a] \in Callback
      BY <1>1 DEF Callback, Outcomes
    <2> QED BY <1>1, <2>1, <2>2 DEF Proceeds, SameRequest, Callback
  <1> QED BY <1>2, <1>3 DEF Continue

----------------------------------------------------------------------------
(* A running handler *)

\* The running handler's next call.
HandlerStep(k) == Exchange(k) \/ FetchProfile(k) \/ FetchEmails(k) \/ SignIn(k)

\* What each of its steps does.
LEMMA HandlerMoves ==
  ASSUME OAuthInv, NEW k \in Callbacks, HandlerStep(k)
  PROVE  /\ UNCHANGED <<login, cookie, fate>>
         /\ \E p, a : /\ Proceeds(k, p, a)
                      /\ p \notin {"responded", "done"} => a = "none"
                      /\ a # "unauthorized"
         /\ Accepted(k)
         /\ \/ UNCHANGED code /\ (Exchanged(k)' => Exchanged(k))
            \/ /\ Spend(callback[k].code)
               /\ Exchanged(k)' => Honours(callback[k].code)
  <1> DEFINE Goal ==
        /\ \E p, a : /\ Proceeds(k, p, a)
                     /\ p \notin {"responded", "done"} => a = "none"
                     /\ a # "unauthorized"
        /\ Accepted(k)
        /\ \/ UNCHANGED code /\ (Exchanged(k)' => Exchanged(k))
           \/ /\ Spend(callback[k].code)
              /\ Exchanged(k)' => Honours(callback[k].code)
  <1>1. /\ TypeOK
        /\ callback \in [Callbacks -> Callback]
        /\ callback[k].phase \notin {"responded", "done"} => callback[k].answer = "none"
    BY DEF OAuthInv, TypeOK, RunningUnanswered
  <1>2. /\ Continue(k, "profile") => Proceeds(k, "profile", callback[k].answer)
        /\ Respond(k, "error") => Proceeds(k, "responded", "error")
        /\ Respond(k, "ok") => Proceeds(k, "responded", "ok")
    BY <1>1, ProceedForms DEF Outcomes
  <1>3. CASE Exchange(k)
    BY <1>1, <1>2, <1>3 DEF Exchange, Proceeds, Accepted, Exchanged
  <1>4. CASE SignIn(k)
    BY <1>1, <1>2, <1>4 DEF SignIn, Proceeds, Accepted, Exchanged
  <1>5. CASE FetchProfile(k)
    <2>1. CASE Respond(k, "error")
      BY <1>1, <1>2, <1>5, <2>1 DEF FetchProfile, Proceeds, Accepted, Exchanged
    <2>2. CASE ~Respond(k, "error")
      <3>1. PICK r \in Reports :
              callback' = [callback EXCEPT
                ![k].report = r, ![k].address = r.email,
                ![k].phase = IF r.email = Nil /\ callback[k].provider = "github"
                             THEN "emails" ELSE "user"]
        BY <1>5, <2>2 DEF FetchProfile
      <3> DEFINE p == IF r.email = Nil /\ callback[k].provider = "github"
                      THEN "emails" ELSE "user"
                 c == [callback[k] EXCEPT !.report = r, !.address = r.email, !.phase = p]
      <3>2. callback' = [callback EXCEPT ![k] = c]
        BY <3>1
      <3>3. r.email \in Address \cup {Nil}
        BY DEF Report
      <3>4. /\ c \in Callback /\ c.phase = p /\ c.answer = callback[k].answer
            /\ c.address = r.email /\ c.report = r /\ c.browser = callback[k].browser
            /\ c.provider = callback[k].provider /\ c.state = callback[k].state
            /\ c.code = callback[k].code /\ c.cookie = callback[k].cookie
            /\ c.fate = callback[k].fate
        BY <1>1, <3>3 DEF Callback
      <3> HIDE DEF c
      <3>5. Proceeds(k, p, callback[k].answer)
        BY <1>1, <3>2, <3>4 DEF Proceeds, SameRequest
      <3> QED BY <1>1, <1>5, <3>5 DEF FetchProfile, Proceeds, Accepted, Exchanged
    <2> QED BY <2>1, <2>2
  <1>6. CASE FetchEmails(k)
    <2> DEFINE found == PrimaryEmail(callback[k].report.listed)
    <2>1. CASE Respond(k, "error")
      BY <1>1, <1>2, <1>6, <2>1 DEF FetchEmails, Proceeds, Accepted, Exchanged
    <2>2. CASE ~Respond(k, "error")
      <3> DEFINE c == [callback[k] EXCEPT !.phase = "user", !.address = found]
      <3>1. found # Nil /\ callback' = [callback EXCEPT ![k] = c]
        BY <1>6, <2>2 DEF FetchEmails
      <3>2. callback[k].report \in Reports
        BY <1>1, <1>6 DEF FetchEmails, OAuthInv, EmailsReported, Callback
      <3>3. found \in Address \cup {Nil}
        BY <3>2, PrimaryEmailListed DEF Report
      <3> HIDE DEF found
      <3>4. /\ c \in Callback /\ c.phase = "user" /\ c.answer = callback[k].answer
            /\ c.address = found /\ c.browser = callback[k].browser
            /\ c.provider = callback[k].provider /\ c.state = callback[k].state
            /\ c.code = callback[k].code /\ c.cookie = callback[k].cookie
            /\ c.fate = callback[k].fate
        BY <1>1, <3>3 DEF Callback
      <3> HIDE DEF c
      <3>5. Proceeds(k, "user", callback[k].answer)
        BY <1>1, <3>1, <3>4 DEF Proceeds, SameRequest
      <3> QED BY <1>1, <1>6, <3>5 DEF FetchEmails, Proceeds, Accepted, Exchanged
    <2> QED BY <2>1, <2>2
  <1>7. UNCHANGED <<login, cookie, fate>>
    BY DEF HandlerStep, Exchange, FetchProfile, FetchEmails, SignIn
  <1> HIDE DEF Goal
  <1>8. Goal
    BY <1>3, <1>4, <1>5, <1>6 DEF HandlerStep, Goal
  <1> QED BY <1>7, <1>8 DEF Goal

\* Callbacks that only proceed keep what is said of their requests.
LEMMA RequestsKept ==
  ASSUME OAuthInv, NEW k \in Callbacks, NEW p, NEW a, Proceeds(k, p, a),
         UNCHANGED login, Accepted(k)' => Accepted(k),
         a = "unauthorized" => callback[k].answer = "unauthorized"
  PROVE  /\ AcceptedMatch' /\ ReceptionTold'
         /\ \A j \in Callbacks :
              callback'[j].cookie # Nil => From(callback[j].cookie, callback[j].browser)'
         /\ \A j \in Callbacks :
              /\ callback'[j].code # Nil => callback'[j].code = callback'[j].state
              /\ callback'[j].state # Nil => login'[callback'[j].state].phase = "back"
  <1>1. \A j \in Callbacks : /\ SameRequest(j)
                             /\ Accepted(j)' => Accepted(j)
                             /\ callback'[j].answer = "unauthorized"
                                  => callback[j].answer = "unauthorized"
    BY DEF Proceeds, Accepted
  <1>2. AcceptedMatch'
    BY <1>1 DEF OAuthInv, AcceptedMatch, StateMatches, SameRequest
  <1>3. ReceptionTold'
    BY <1>1 DEF OAuthInv, ReceptionTold, StateUsedUp, RefusedForAReason, SameRequest
  <1>4. \A j \in Callbacks :
          callback'[j].cookie # Nil => From(callback[j].cookie, callback[j].browser)'
    BY <1>1 DEF OAuthInv, CookiesAtHome, SameRequest, From, Set
  <1>5. \A j \in Callbacks :
          /\ callback'[j].code # Nil => callback'[j].code = callback'[j].state
          /\ callback'[j].state # Nil => login'[callback'[j].state].phase = "back"
    BY <1>1 DEF OAuthInv, CodesOnce, SameRequest
  <1> QED BY <1>2, <1>3, <1>4, <1>5

\* Its own typing comes with it.
LEMMA ProceedsTyped ==
  ASSUME TypeOK, RunningUnanswered, EmailsReported, NEW k \in Callbacks, NEW p, NEW a,
         Proceeds(k, p, a), p \notin {"responded", "done"} => a = "none"
  PROVE  /\ callback' \in [Callbacks -> Callback]
         /\ \A j \in Callbacks :
              callback'[j].phase = "user" /\ callback'[j].provider = "github" =>
                callback'[j].address # Nil
         /\ RunningUnanswered' /\ EmailsReported'
  BY DEF TypeOK, RunningUnanswered, EmailsReported, Proceeds, SameRequest

\* A step of a running handler keeps the invariant.
LEMMA HandlerKeeps ==
  ASSUME OAuthInv, NEW k \in Callbacks, HandlerStep(k)
  PROVE  OAuthInv'
  <1>1. PICK p, a : /\ Proceeds(k, p, a)
                    /\ p \notin {"responded", "done"} => a = "none"
                    /\ a # "unauthorized"
    BY HandlerMoves
  <1>2. /\ UNCHANGED <<login, cookie, fate>>
        /\ Accepted(k)
        /\ \/ UNCHANGED code /\ (Exchanged(k)' => Exchanged(k))
           \/ /\ Spend(callback[k].code)
              /\ Exchanged(k)' => Honours(callback[k].code)
    BY HandlerMoves
  <1>3. callback[k].code \in Handshakes \cup {Nil}
    BY DEF OAuthInv, TypeOK, Callback
  <1>4. /\ code' \in [Handshakes -> {"none", "denied", "issued", "spent"}]
        /\ \A h \in Handshakes : code'[h] = code[h]
                                 \/ (code'[h] = "spent" /\ h = callback[k].code)
        /\ \/ Exchanged(k)' => Exchanged(k)
           \/ /\ callback[k].code # Nil /\ code[callback[k].code] = "issued"
              /\ code'[callback[k].code] = "spent"
    BY <1>2, <1>3 DEF OAuthInv, TypeOK, Spend, Honours
  <1>5. TypeOK' /\ RunningUnanswered' /\ EmailsReported'
    BY <1>1, <1>2, <1>4, ProceedsTyped DEF OAuthInv, TypeOK
  <1>6. AcceptedMatch' /\ ReceptionTold'
    BY <1>1, <1>2, RequestsKept
  <1>7. CookiesAtHome'
    <2>1. \A b \in Browsers : cookie'[b] # Nil => From(cookie[b], b)'
      BY <1>2 DEF OAuthInv, CookiesAtHome, From, Set
    <2> QED BY <1>1, <1>2, <2>1, RequestsKept DEF CookiesAtHome
  <1>8. FatesTold'
    BY <1>2 DEF OAuthInv, FatesTold, Set
  <1>9. CodesOnce'
    <2>1. \A h \in Handshakes : code'[h] # "none" => login'[h].phase = "back"
      BY <1>2, <1>3, <1>4 DEF OAuthInv, CodesOnce
    <2>2. \A j \in Callbacks :
            /\ callback'[j].code # Nil => callback'[j].code = callback'[j].state
            /\ callback'[j].state # Nil => login'[callback'[j].state].phase = "back"
      BY <1>1, <1>2, RequestsKept
    <2>3. \A j \in Callbacks : /\ callback'[j].code = callback[j].code
                               /\ j # k => (Exchanged(j)' <=> Exchanged(j))
                               /\ callback[j].code \in Handshakes \cup {Nil}
      BY <1>1 DEF Proceeds, SameRequest, Exchanged, OAuthInv, TypeOK, Callback
    <2>4. \A j \in Callbacks :
            Exchanged(j)' => callback'[j].code # Nil /\ code'[callback'[j].code] = "spent"
      BY <1>3, <1>4, <2>3 DEF OAuthInv, CodesOnce
    <2>5. \A i, j \in Callbacks :
            Exchanged(i)' /\ Exchanged(j)' /\ callback'[i].code = callback'[j].code => i = j
      BY <1>3, <1>4, <2>3 DEF OAuthInv, CodesOnce
    <2> QED BY <2>1, <2>2, <2>4, <2>5 DEF CodesOnce
  <1> QED BY <1>5, <1>6, <1>7, <1>8, <1>9 DEF OAuthInv
----------------------------------------------------------------------------
(* The browser, the provider, and both ends of a callback *)

\* The handshakes, as typed.
LEMMA Logins ==
  ASSUME OAuthInv, NEW h \in Handshakes
  PROVE  /\ login \in [Handshakes -> Login] /\ login[h] \in Login
         /\ callback \in [Callbacks -> Callback]
         /\ cookie \in [Browsers -> Handshakes \cup {Nil}]
         /\ code \in [Handshakes -> {"none", "denied", "issued", "spent"}]
         /\ fate \in [Handshakes -> SUBSET Fates] /\ fate[h] \subseteq Fates
  BY DEF OAuthInv, TypeOK

\* What is only about callbacks, codes apart, stays when no callback moves and
\* the handshakes whose cookie is set stay so.
LEMMA CallbacksKept ==
  ASSUME OAuthInv, UNCHANGED callback,
         \A h \in Handshakes : Set(h) => Set(h)' /\ login'[h].browser = login[h].browser,
         \A h \in Handshakes :
           login[h].phase = "back" => login'[h].phase = "back"
  PROVE  /\ AcceptedMatch' /\ RunningUnanswered' /\ EmailsReported' /\ ReceptionTold'
         /\ \A j \in Callbacks :
              callback'[j].cookie # Nil => From(callback[j].cookie, callback[j].browser)'
         /\ \A j \in Callbacks :
              /\ callback'[j].code # Nil => callback'[j].code = callback'[j].state
              /\ callback'[j].state # Nil => login'[callback'[j].state].phase = "back"
  <1>1. AcceptedMatch' /\ RunningUnanswered' /\ EmailsReported' /\ StateUsedUp'
    BY DEF OAuthInv, AcceptedMatch, RunningUnanswered, EmailsReported, ReceptionTold,
           StateUsedUp, Accepted, StateMatches
  <1>4. RefusedForAReason'
    <2>1. \A k \in Callbacks :
            callback[k].state # Nil => Set(callback[k].state) /\ callback[k].state \in Handshakes
      BY DEF OAuthInv, TypeOK, Callback, CodesOnce, Set
    <2> QED BY <2>1 DEF OAuthInv, ReceptionTold, RefusedForAReason
  <1>2. \A j \in Callbacks :
          callback'[j].cookie # Nil => From(callback[j].cookie, callback[j].browser)'
    BY DEF OAuthInv, CookiesAtHome, From, Set
  <1>3. \A j \in Callbacks :
          /\ callback'[j].code # Nil => callback'[j].code = callback'[j].state
          /\ callback'[j].state # Nil => login'[callback'[j].state].phase = "back"
    BY DEF OAuthInv, CodesOnce, TypeOK, Callback
  <1> QED BY <1>1, <1>2, <1>3, <1>4 DEF ReceptionTold

\* Initially nobody has been anywhere.
LEMMA OAuthInit == Init => OAuthInv
  <1> SUFFICES ASSUME Init PROVE OAuthInv
    OBVIOUS
  <1>1. \A k \in Callbacks :
          /\ callback[k] = NoCallback /\ NoCallback \in Callback
          /\ callback[k].phase = "idle" /\ callback[k].answer = "none"
          /\ callback[k].state = Nil /\ callback[k].code = Nil /\ callback[k].cookie = Nil
          /\ callback[k].fate = {}
    BY DEF Init, NoCallback, Callback, Providers
  <1>2. \A h \in Handshakes :
          /\ login[h] \in Login /\ login[h].phase = "idle"
          /\ code[h] = "none" /\ fate[h] = {}
    BY DEF Init, Login
  <1>3. TypeOK
    BY <1>1, <1>2 DEF Init, TypeOK
  <1>4. RunningUnanswered /\ EmailsReported /\ AcceptedMatch /\ ReceptionTold
    BY <1>1 DEF RunningUnanswered, EmailsReported, AcceptedMatch, ReceptionTold, StateUsedUp,
                RefusedForAReason, Accepted
  <1>5. CookiesAtHome /\ FatesTold
    BY <1>1, <1>2 DEF Init, CookiesAtHome, FatesTold, Set
  <1>6. CodesOnce
    BY <1>1, <1>2 DEF CodesOnce, Exchanged
  <1> QED BY <1>3, <1>4, <1>5, <1>6 DEF OAuthInv

\* Starting a handshake keeps the invariant: nothing is said of an idle one.
LEMMA StartLoginKeeps ==
  ASSUME OAuthInv, NEW h \in Handshakes, StartLogin(h)
  PROVE  OAuthInv'
  <1>1. PICK b \in Browsers, p \in Providers, phase \in {"answered", "failed"} :
          login' = [login EXCEPT ![h] = [phase |-> phase, browser |-> b, provider |-> p]]
    BY DEF StartLogin
  <1>2. login[h].phase = "idle" /\ UNCHANGED <<callback, cookie, code, fate>>
    BY DEF StartLogin
  <1>3. /\ login' \in [Handshakes -> Login]
        /\ \A g \in Handshakes \ {h} : login'[g] = login[g]
        /\ login'[h].phase \in {"answered", "failed"}
    BY <1>1, Logins DEF Login
  <1>4. \A g \in Handshakes :
          /\ Set(g)' <=> Set(g)
          /\ Set(g) => login'[g].browser = login[g].browser
          /\ login'[g].phase = "back" <=> login[g].phase = "back"
          /\ login'[g].phase # "idle" =>
               login'[g].browser \in Browsers \/ login'[g] = login[g]
    BY <1>1, <1>2, <1>3, Logins DEF Set
  <1>5. TypeOK'
    BY <1>2, <1>3 DEF OAuthInv, TypeOK
  <1>6. CookiesAtHome'
    <2>1. \A c \in Browsers : cookie'[c] # Nil => From(cookie[c], c)'
      BY <1>2, <1>4 DEF OAuthInv, CookiesAtHome, From, Set
    <2> QED BY <1>2, <1>4, <2>1, CallbacksKept DEF CookiesAtHome
  <1>7. FatesTold'
    BY <1>2, <1>4 DEF OAuthInv, FatesTold
  <1>8. CodesOnce'
    BY <1>2, <1>4, CallbacksKept DEF OAuthInv, CodesOnce, Exchanged
  <1> QED BY <1>2, <1>4, <1>5, <1>6, <1>7, <1>8, CallbacksKept DEF OAuthInv

\* The cookie that arrives with the redirect displaces the one before.
LEMMA ArriveLoginKeeps ==
  ASSUME OAuthInv, NEW h \in Handshakes, ArriveLogin(h)
  PROVE  OAuthInv'
  <1>1. PICK b \in Browsers : login[h].browser = b
    BY DEF ArriveLogin, OAuthInv, FatesTold
  <1>2. /\ login[h].phase = "answered"
        /\ login' = [login EXCEPT ![h].phase = "away"]
        /\ cookie' = [cookie EXCEPT ![b] = h]
        /\ fate' = [g \in Handshakes |->
                      fate[g] \cup IF Displaced(b, h, g) THEN {"overtaken"} ELSE {}]
        /\ UNCHANGED <<callback, code>>
    BY <1>1 DEF ArriveLogin
  <1>3. /\ login' \in [Handshakes -> Login]
        /\ \A g \in Handshakes \ {h} : login'[g] = login[g]
        /\ login'[h].phase = "away" /\ login'[h].browser = b
    BY <1>1, <1>2, Logins DEF Login
  <1>4. \A g \in Handshakes :
          /\ Set(g)' <=> Set(g) \/ g = h
          /\ ~Set(h)
          /\ login'[g].browser = login[g].browser
          /\ login'[g].phase = "back" <=> login[g].phase = "back"
    BY <1>1, <1>2, <1>3 DEF Set
  <1>5. /\ cookie' \in [Browsers -> Handshakes \cup {Nil}]
        /\ fate' \in [Handshakes -> SUBSET Fates]
        /\ \A c \in Browsers : cookie'[c] = IF c = b THEN h ELSE cookie[c]
        /\ \A g \in Handshakes :
             fate'[g] = fate[g] \cup IF cookie[b] = g /\ g # h THEN {"overtaken"} ELSE {}
    BY <1>2, Logins DEF Displaced, Fates
  <1>6. TypeOK'
    BY <1>2, <1>3, <1>5 DEF OAuthInv, TypeOK
  <1>7. CookiesAtHome'
    <2>1. \A c \in Browsers : cookie'[c] # Nil => From(cookie[c], c)'
      BY <1>3, <1>4, <1>5 DEF OAuthInv, CookiesAtHome, From, Set
    <2> QED BY <1>2, <1>4, <2>1, CallbacksKept DEF CookiesAtHome
  <1>8. FatesTold'
    <2>1. ASSUME NEW g \in Handshakes
          PROVE  /\ login'[g].phase # "idle" => login'[g].browser \in Browsers
                 /\ ~Set(g)' => fate'[g] = {}
                 /\ Set(g)' /\ fate'[g] = {} => cookie'[login'[g].browser] = g
                 /\ "answered" \in fate'[g] => \A c \in Browsers : cookie'[c] # g
      <3>1. cookie[b] = g => Set(g)
        BY DEF OAuthInv, CookiesAtHome, From
      <3>2. login[g].phase # "idle" => login[g].browser \in Browsers
        BY DEF OAuthInv, FatesTold
      <3>3. CASE g = h
        <4>1. fate[h] = {} /\ fate'[h] = {}
          BY <1>4, <1>5 DEF OAuthInv, FatesTold
        <4> QED BY <1>3, <1>4, <1>5, <3>3, <4>1
      <3>4. CASE g # h
        <4>1. Set(g) => login[g].phase # "idle"
          BY DEF Set
        <4>2. login'[g] = login[g] /\ (Set(g)' <=> Set(g))
          BY <1>3, <1>4, <3>4
        <4>3. "answered" \in fate'[g] => "answered" \in fate[g]
          BY <1>5
        <4>4. cookie[b] = g => fate'[g] # {}
          BY <1>5, <3>4
        <4>5. /\ ~Set(g) => fate'[g] = {}
              /\ fate'[g] = {} => fate[g] = {}
          BY <1>5, <3>1 DEF OAuthInv, FatesTold
        <4>6. Set(g) /\ fate'[g] = {} => cookie'[login[g].browser] = g
          BY <1>5, <3>2, <4>1, <4>4, <4>5 DEF OAuthInv, FatesTold
        <4>7. "answered" \in fate'[g] => \A c \in Browsers : cookie'[c] # g
          BY <1>5, <3>4, <4>3 DEF OAuthInv, FatesTold
        <4> QED BY <3>2, <4>2, <4>5, <4>6, <4>7
      <3> QED BY <3>3, <3>4
    <2> QED BY <2>1 DEF FatesTold
  <1>9. CodesOnce'
    BY <1>2, <1>4, CallbacksKept DEF OAuthInv, CodesOnce, Exchanged
  <1> QED BY <1>2, <1>4, <1>6, <1>7, <1>8, <1>9, CallbacksKept DEF OAuthInv

\* Coming back from the provider keeps the invariant: the code is a new one.
LEMMA ReturnKeeps ==
  ASSUME OAuthInv, NEW h \in Handshakes, Return(h)
  PROVE  OAuthInv'
  <1>1. PICK c \in {"issued", "denied"} : code' = [code EXCEPT ![h] = c]
    BY DEF Return
  <1>2. /\ login[h].phase = "away"
        /\ login' = [login EXCEPT ![h].phase = "back"]
        /\ UNCHANGED <<callback, cookie, fate>>
    BY DEF Return
  <1>3. /\ login' \in [Handshakes -> Login]
        /\ \A g \in Handshakes \ {h} : login'[g] = login[g]
        /\ login'[h].phase = "back" /\ login'[h].browser = login[h].browser
    BY <1>2, Logins DEF Login
  <1>4. \A g \in Handshakes :
          /\ Set(g)' <=> Set(g)
          /\ login'[g].browser = login[g].browser
          /\ login'[g].phase = "back" <=> login[g].phase = "back" \/ g = h
          /\ login'[g].phase # "idle" => login[g].phase # "idle"
    BY <1>2, <1>3 DEF Set
  <1>5. /\ code' \in [Handshakes -> {"none", "denied", "issued", "spent"}]
        /\ \A g \in Handshakes \ {h} : code'[g] = code[g]
        /\ code[h] = "none"
    BY <1>1, <1>2, Logins DEF OAuthInv, CodesOnce
  <1>6. TypeOK'
    BY <1>2, <1>3, <1>5 DEF OAuthInv, TypeOK
  <1>7. CookiesAtHome'
    <2>1. \A b \in Browsers : cookie'[b] # Nil => From(cookie[b], b)'
      BY <1>2, <1>4 DEF OAuthInv, CookiesAtHome, From, Set
    <2> QED BY <1>2, <1>4, <2>1, CallbacksKept DEF CookiesAtHome
  <1>8. FatesTold'
    BY <1>2, <1>4 DEF OAuthInv, FatesTold
  <1>9. CodesOnce'
    <2>1. \A k \in Callbacks : callback[k].code \in Handshakes \cup {Nil}
      BY DEF OAuthInv, TypeOK, Callback
    <2>2. \A k \in Callbacks : Exchanged(k)' => /\ callback'[k].code # Nil
                                                /\ code'[callback'[k].code] = "spent"
      BY <1>2, <1>5, <2>1 DEF OAuthInv, CodesOnce, Exchanged
    <2> QED BY <1>2, <1>4, <1>5, <2>2, CallbacksKept DEF OAuthInv, CodesOnce, Exchanged
  <1> QED BY <1>2, <1>4, <1>6, <1>7, <1>8, <1>9, CallbacksKept DEF OAuthInv

\* A cookie that expires leaves its browser.
LEMMA ExpireCookieKeeps ==
  ASSUME OAuthInv, NEW b \in Browsers, ExpireCookie(b)
  PROVE  OAuthInv'
  <1>1. PICK h \in Handshakes : cookie[b] = h
    BY DEF ExpireCookie, OAuthInv, TypeOK
  <1>2. /\ cookie' = [cookie EXCEPT ![b] = Nil]
        /\ fate' = [fate EXCEPT ![h] = fate[h] \cup {"expired"}]
        /\ UNCHANGED <<login, callback, code>>
    BY <1>1 DEF ExpireCookie
  <1>3. /\ cookie' \in [Browsers -> Handshakes \cup {Nil}]
        /\ fate' \in [Handshakes -> SUBSET Fates]
        /\ \A c \in Browsers : cookie'[c] = IF c = b THEN Nil ELSE cookie[c]
        /\ \A g \in Handshakes :
             fate'[g] = IF g = h THEN fate[g] \cup {"expired"} ELSE fate[g]
    BY <1>2, Logins DEF Fates
  <1>4. \A g \in Handshakes : Set(g)' <=> Set(g)
    BY <1>2 DEF Set
  <1>5. TypeOK'
    BY <1>2, <1>3 DEF OAuthInv, TypeOK
  <1>6. CookiesAtHome'
    <2>1. \A c \in Browsers : cookie'[c] # Nil => From(cookie[c], c)'
      BY <1>2, <1>3 DEF OAuthInv, CookiesAtHome, From, Set
    <2> QED BY <1>2, <1>4, <2>1, CallbacksKept DEF CookiesAtHome
  <1>7. FatesTold'
    <2>1. From(h, b)
      BY <1>1 DEF OAuthInv, CookiesAtHome
    <2>2. ASSUME NEW g \in Handshakes
          PROVE  /\ login'[g].phase # "idle" => login'[g].browser \in Browsers
                 /\ ~Set(g)' => fate'[g] = {}
                 /\ Set(g)' /\ fate'[g] = {} => cookie'[login'[g].browser] = g
                 /\ "answered" \in fate'[g] => \A c \in Browsers : cookie'[c] # g
      <3>1. Set(g) => login[g].browser \in Browsers
        BY DEF OAuthInv, FatesTold, Set
      <3> QED BY <1>1, <1>2, <1>3, <1>4, <2>1, <3>1 DEF OAuthInv, FatesTold, From
    <2> QED BY <2>2 DEF FatesTold
  <1>8. CodesOnce'
    BY <1>2, <1>4, CallbacksKept DEF OAuthInv, CodesOnce, Exchanged
  <1> QED BY <1>2, <1>4, <1>5, <1>6, <1>7, <1>8, CallbacksKept DEF OAuthInv

\* What a browser can send to a callback address.
LEMMA AddressesSent ==
  ASSUME OAuthInv, NEW b \in Browsers, NEW address \in Addresses,
         NEW c, c = Request(address, b)
  PROVE  /\ c \in Callback /\ c.phase = "idle" /\ c.answer = "none"
         /\ c.browser = b /\ c.cookie = cookie[b]
         /\ c.state # Nil => /\ c.state \in Handshakes /\ login[c.state].phase = "back"
                             /\ c.fate = fate[c.state]
         /\ c.state = Nil => c.fate = {}
         /\ c.code # Nil => c.code = c.state
  <1>1. NoCallback \in Callback /\ cookie[b] \in Handshakes \cup {Nil}
    BY DEF NoCallback, Callback, Providers, OAuthInv, TypeOK
  <1>2. CASE \E h \in Handshakes :
               /\ login[h].phase = "back"
               /\ address = [NoCallback EXCEPT !.provider = login[h].provider, !.state = h,
                    !.code = IF code[h] = "denied" THEN Nil ELSE h, !.fate = fate[h]]
    <2>1. PICK h \in Handshakes :
            /\ login[h].phase = "back"
            /\ address = [NoCallback EXCEPT !.provider = login[h].provider, !.state = h,
                 !.code = IF code[h] = "denied" THEN Nil ELSE h, !.fate = fate[h]]
      BY <1>2
    <2>2. login[h].provider \in Providers \cup {Nil} /\ fate[h] \in SUBSET Fates
      BY Logins DEF Login
    <2> QED BY <1>1, <2>1, <2>2 DEF NoCallback, Callback, Request
  <1>3. CASE \E p \in Providers : address = [NoCallback EXCEPT !.provider = p]
    BY <1>1, <1>3 DEF NoCallback, Callback, Request
  <1> QED BY <1>2, <1>3 DEF Addresses

\* The comparison of the states keeps the invariant: what matches a cookie is in
\* its browser, and what does not has a fate.
LEMMA ReceiveKeeps ==
  ASSUME OAuthInv, NEW k \in Callbacks, ReceiveCallback(k)
  PROVE  OAuthInv'
  <1>1. PICK b \in Browsers, address \in Addresses :
          LET c == Request(address, b) IN
          callback' = [callback EXCEPT ![k] =
            IF StateMatches(c) THEN [c EXCEPT !.phase = "exchange"]
            ELSE [c EXCEPT !.phase = "responded", !.answer = "unauthorized"]]
    BY DEF ReceiveCallback
  <1>2. PICK c : c = Request(address, b)
    OBVIOUS
  <1> DEFINE d == IF StateMatches(c) THEN [c EXCEPT !.phase = "exchange"]
                  ELSE [c EXCEPT !.phase = "responded", !.answer = "unauthorized"]
  <1>3. /\ c \in Callback /\ c.phase = "idle" /\ c.answer = "none"
        /\ c.browser = b /\ c.cookie = cookie[b]
        /\ c.state # Nil => /\ c.state \in Handshakes /\ login[c.state].phase = "back"
                            /\ c.fate = fate[c.state]
        /\ c.state = Nil => c.fate = {}
        /\ c.code # Nil => c.code = c.state
    BY <1>2, AddressesSent
  <1>4. callback' = [callback EXCEPT ![k] = d] /\ UNCHANGED <<login, cookie, code, fate>>
    BY <1>1, <1>2 DEF ReceiveCallback
  <1>5. /\ d \in Callback
        /\ d.browser = b /\ d.cookie = cookie[b] /\ d.state = c.state /\ d.fate = c.fate
        /\ d.code = c.code
        /\ d.phase = IF StateMatches(c) THEN "exchange" ELSE "responded"
        /\ d.answer = IF StateMatches(c) THEN "none" ELSE "unauthorized"
        /\ StateMatches(c) <=> c.state # Nil /\ c.state = cookie[b]
    BY <1>3 DEF Callback, StateMatches
  <1> HIDE DEF d
  <1>6. /\ callback' \in [Callbacks -> Callback] /\ callback'[k] = d
        /\ \A j \in Callbacks \ {k} : callback'[j] = callback[j]
    BY <1>4, <1>5 DEF OAuthInv, TypeOK
  <1>7. TypeOK' /\ RunningUnanswered' /\ EmailsReported'
    BY <1>4, <1>5, <1>6 DEF OAuthInv, TypeOK, RunningUnanswered, EmailsReported
  <1>8. \A j \in Callbacks :
          /\ j = k => (Accepted(j)' <=> StateMatches(c)) /\ ~Exchanged(j)'
          /\ j # k => (Accepted(j)' <=> Accepted(j)) /\ (Exchanged(j)' <=> Exchanged(j))
    BY <1>5, <1>6 DEF Accepted, Exchanged
  <1>9. CookiesAtHome'
    <2>1. cookie[b] # Nil => From(cookie[b], b)
      BY DEF OAuthInv, CookiesAtHome
    <2> QED BY <1>4, <1>5, <1>6, <2>1 DEF OAuthInv, CookiesAtHome, From, Set
  <1>10. AcceptedMatch'
    BY <1>5, <1>6, <1>8 DEF OAuthInv, AcceptedMatch, StateMatches
  <1>11. FatesTold'
    BY <1>4 DEF OAuthInv, FatesTold, Set
  <1>12. StateUsedUp'
    <2>1. StateMatches(c) => "answered" \notin d.fate
      BY <1>3, <1>5 DEF OAuthInv, FatesTold
    <2> QED BY <1>5, <1>6, <1>8, <2>1 DEF OAuthInv, ReceptionTold, StateUsedUp
  <1>13. RefusedForAReason'
    <2>1. ~StateMatches(c) /\ c.state # Nil /\ login[c.state].browser = b => d.fate # {}
      BY <1>3, <1>5 DEF OAuthInv, FatesTold, Set
    <2> QED BY <1>4, <1>5, <1>6, <2>1 DEF OAuthInv, ReceptionTold, RefusedForAReason
  <1>14. CodesOnce'
    BY <1>3, <1>4, <1>5, <1>6, <1>8 DEF OAuthInv, CodesOnce
  <1> QED BY <1>7, <1>9, <1>10, <1>11, <1>12, <1>13, <1>14 DEF OAuthInv, ReceptionTold

\* The answer that arrives clears the cookie, if the comparison went well.
LEMMA ArriveCallbackKeeps ==
  ASSUME OAuthInv, NEW k \in Callbacks, ArriveCallback(k)
  PROVE  OAuthInv'
  <1> DEFINE b == callback[k].browser
             h == callback[k].state
  <1>1. /\ callback[k].phase = "responded"
        /\ callback' = [callback EXCEPT ![k].phase = "done"]
        /\ UNCHANGED <<login, code>>
    BY DEF ArriveCallback
  <1>2. Proceeds(k, "done", callback[k].answer)
    BY <1>1, ProceedForms DEF OAuthInv
  <1>3. Accepted(k) => h \in Handshakes /\ From(h, b) /\ h # Nil
    BY DEF OAuthInv, AcceptedMatch, CookiesAtHome, StateMatches, From, Set
  <1>4. /\ Accepted(k)' <=> Accepted(k)
        /\ Exchanged(k)' <=> Exchanged(k)
    BY <1>1, <1>2 DEF Proceeds, Accepted, Exchanged
  <1>5. /\ cookie' \in [Browsers -> Handshakes \cup {Nil}]
        /\ fate' \in [Handshakes -> SUBSET Fates]
        /\ \/ UNCHANGED <<cookie, fate>>
           \/ /\ Accepted(k)
              /\ \A a \in Browsers : cookie'[a] = IF a = b THEN Nil ELSE cookie[a]
              /\ \A g \in Handshakes :
                   fate'[g] = fate[g] \cup IF g = h THEN {"answered"}
                                           ELSE IF cookie[b] = g THEN {"overtaken"} ELSE {}
    <2>1. CASE UNCHANGED <<cookie, fate>>
      BY <2>1 DEF OAuthInv, TypeOK
    <2>2. CASE /\ cookie' = IF Clears(k) THEN [cookie EXCEPT ![b] = Nil] ELSE cookie
               /\ fate' = [g \in Handshakes |->
                             fate[g] \cup
                               IF ~Accepted(k) THEN {}
                               ELSE IF g = h THEN {"answered"}
                               ELSE IF Displaced(b, Nil, g) THEN {"overtaken"} ELSE {}]
      <3>1. /\ cookie \in [Browsers -> Handshakes \cup {Nil}]
            /\ fate \in [Handshakes -> SUBSET Fates]
        BY DEF OAuthInv, TypeOK
      <3>2. CASE Accepted(k)
        BY <2>2, <3>1, <3>2 DEF Clears, Displaced, Fates
      <3>3. CASE ~Accepted(k)
        <4>1. UNCHANGED cookie
          BY <2>2, <3>3 DEF Clears
        <4>2. UNCHANGED fate
          BY <2>2, <3>1, <3>3
        <4> QED BY <3>1, <4>1, <4>2
      <3> QED BY <3>2, <3>3
    <2> QED BY <2>1, <2>2 DEF ArriveCallback
  <1> HIDE DEF b, h
  <1>6. TypeOK' /\ RunningUnanswered' /\ EmailsReported'
    BY <1>1, <1>2, <1>5, ProceedsTyped DEF OAuthInv, TypeOK
  <1>7. AcceptedMatch' /\ ReceptionTold'
    BY <1>1, <1>2, <1>4, RequestsKept
  <1>8. CookiesAtHome'
    <2>1. \A a \in Browsers : cookie'[a] # Nil => From(cookie[a], a)'
      BY <1>1, <1>5 DEF OAuthInv, CookiesAtHome, From, Set
    <2> QED BY <1>1, <1>2, <1>4, <2>1, RequestsKept DEF CookiesAtHome
  <1>9. FatesTold'
    <2>1. CASE UNCHANGED <<cookie, fate>>
      BY <1>1, <2>1 DEF OAuthInv, FatesTold, Set
    <2>2. CASE /\ Accepted(k)
               /\ \A a \in Browsers : cookie'[a] = IF a = b THEN Nil ELSE cookie[a]
               /\ \A g \in Handshakes :
                    fate'[g] = fate[g] \cup IF g = h THEN {"answered"}
                                            ELSE IF cookie[b] = g THEN {"overtaken"} ELSE {}
      <3> SUFFICES ASSUME NEW g \in Handshakes
                   PROVE  /\ login'[g].phase # "idle" => login'[g].browser \in Browsers
                          /\ ~Set(g)' => fate'[g] = {}
                          /\ Set(g)' /\ fate'[g] = {} => cookie'[login'[g].browser] = g
                          /\ "answered" \in fate'[g] => \A a \in Browsers : cookie'[a] # g
        BY DEF FatesTold
      <3>1. /\ login'[g] = login[g]
            /\ Set(g)' <=> Set(g)
            /\ login[g].phase # "idle" => login[g].browser \in Browsers
            /\ Set(g) => login[g].phase # "idle"
        BY <1>1 DEF OAuthInv, FatesTold, Set
      <3>2. CASE g = h
        <4>1. Set(h) /\ \A a \in Browsers : cookie[a] = h => a = b
          BY <1>3, <2>2 DEF OAuthInv, CookiesAtHome, From
        <4> QED BY <1>3, <2>2, <3>1, <3>2, <4>1
      <3>3. CASE g # h
        <4>1. cookie[b] = g /\ b \in Browsers => Set(g) /\ login[g].browser = b
          BY DEF OAuthInv, CookiesAtHome, From
        <4>2. b \in Browsers
          BY <1>3, <2>2 DEF OAuthInv, FatesTold, From, Set
        <4>3. "answered" \in fate'[g] => "answered" \in fate[g]
          BY <2>2, <3>3
        <4>4. cookie[b] = g => fate'[g] # {}
          BY <2>2, <3>3
        <4>5. /\ ~Set(g) => fate'[g] = {}
              /\ fate'[g] = {} => fate[g] = {}
          BY <2>2, <3>3, <4>1, <4>2 DEF OAuthInv, FatesTold
        <4>6. Set(g) /\ fate'[g] = {} => cookie'[login[g].browser] = g
          BY <2>2, <3>1, <4>4, <4>5 DEF OAuthInv, FatesTold
        <4>7. "answered" \in fate'[g] => \A a \in Browsers : cookie'[a] # g
          BY <2>2, <4>3 DEF OAuthInv, FatesTold
        <4> QED BY <3>1, <4>5, <4>6, <4>7
      <3> QED BY <3>2, <3>3
    <2> QED BY <1>5, <2>1, <2>2
  <1>10. CodesOnce'
    <2>1. \A j \in Callbacks : /\ callback'[j].code = callback[j].code
                               /\ Exchanged(j)' <=> Exchanged(j)
      BY <1>2, <1>4 DEF Proceeds, SameRequest, Exchanged
    <2>2. \A j \in Callbacks :
            /\ callback'[j].code # Nil => callback'[j].code = callback'[j].state
            /\ callback'[j].state # Nil => login'[callback'[j].state].phase = "back"
      BY <1>1, <1>2, <1>4, RequestsKept
    <2> QED BY <1>1, <2>1, <2>2 DEF OAuthInv, CodesOnce
  <1> QED BY <1>6, <1>7, <1>8, <1>9, <1>10 DEF OAuthInv

----------------------------------------------------------------------------
\* Every step keeps the invariant.
LEMMA OAuthNext == OAuthInv /\ [Next]_vars => OAuthInv'
  <1> SUFFICES ASSUME OAuthInv, [Next]_vars PROVE OAuthInv'
    OBVIOUS
  <1>1. CASE UNCHANGED vars
    BY <1>1 DEF vars, OAuthInv, TypeOK, RunningUnanswered, EmailsReported, CookiesAtHome,
                AcceptedMatch, FatesTold, ReceptionTold, StateUsedUp, RefusedForAReason,
                CodesOnce, Accepted, Exchanged, StateMatches, From, Set
  <1>2. CASE Next
    BY <1>2, StartLoginKeeps, ArriveLoginKeeps, ReturnKeeps, ExpireCookieKeeps, ReceiveKeeps,
       ArriveCallbackKeeps, HandlerKeeps DEF Next, HandlerStep
  <1> QED BY <1>1, <1>2

\* The handshake keeps the invariant, whatever the providers report.
LEMMA OAuthInvariant == Spec => []OAuthInv
  BY OAuthInit, OAuthNext, PTL DEF Spec

\* The handshake is well typed; no GitHub user gets to findOrCreateUser
\* without an address.
THEOREM HandshakeTypes == Spec => []TypeOK
  <1>1. OAuthInv => TypeOK
    BY DEF OAuthInv
  <1> QED BY <1>1, OAuthInvariant, PTL

\* Callbacks get past the comparison of the states only in the browser that
\* started their handshake.
THEOREM AcceptedAtHome == Spec => []AcceptedWhereStarted
  <1>1. OAuthInv => AcceptedWhereStarted
    BY DEF OAuthInv, AcceptedMatch, CookiesAtHome, StateMatches, From, AcceptedWhereStarted
  <1> QED BY <1>1, OAuthInvariant, PTL

\* A handshake signs in at most once, whatever its callback is repeated for.
THEOREM OneSignIn == Spec => []OneSignInPerHandshake
  <1>1. OAuthInv => OneSignInPerHandshake
    BY DEF OAuthInv, CodesOnce, Exchanged, OneSignInPerHandshake
  <1> QED BY <1>1, OAuthInvariant, PTL

\* A state is used up once its answer has arrived.
THEOREM UsedUp == Spec => []StateUsedUp
  <1>1. OAuthInv => StateUsedUp
    BY DEF OAuthInv, ReceptionTold
  <1> QED BY <1>1, OAuthInvariant, PTL

\* A callback is refused in its own browser only if the cookie has been lost.
THEOREM Refusals == Spec => []RefusedForAReason
  <1>1. OAuthInv => RefusedForAReason
    BY DEF OAuthInv, ReceptionTold
  <1> QED BY <1>1, OAuthInvariant, PTL

----------------------------------------------------------------------------
(* The address a GitHub user signs in with *)

\* One of the addresses listed is primary and verified.
ListsPrimary(report) ==
  \E i \in DOMAIN report.listed : report.listed[i].primary /\ report.listed[i].verified

\* If one is, such a one is taken.
LEMMA PrimaryEmailWins ==
  ASSUME NEW report \in Reports, ListsPrimary(report)
  PROVE  PrimaryEmail(report.listed).primary /\ PrimaryEmail(report.listed).verified
  <1> DEFINE listed == report.listed
             good == {i \in DOMAIN listed : listed[i].primary /\ listed[i].verified}
  <1>1. listed \in Seq(Address)
    BY DEF Report
  <1>2. good \in SUBSET Nat /\ good # {}
    BY <1>1 DEF ListsPrimary
  <1>3. Min(good) \in good
    BY <1>2, MinIsIn
  <1>4. PrimaryEmail(listed) = listed[Min(good)]
    BY <1>2 DEF PrimaryEmail
  <1> QED BY <1>3, <1>4

\* What VerifiedPrimaryWins says of an answer, of a callback whose address is known.
WinsIn(c) ==
  /\ c.phase = "user" \/ c.answer = "ok"
  /\ c.provider = "github" /\ c.report.email = Nil /\ ListsPrimary(c.report)
  => c.address.primary /\ c.address.verified

\* Every callback keeps to it.
AddressWins == \A k \in Callbacks : WinsIn(callback[k])

\* A handler that has got to no user yet, or found its address earlier, is as before.
LEMMA WinsStill ==
  ASSUME NEW c \in Callback, WinsIn(c), NEW phase, NEW answer,
         phase = "user" \/ answer = "ok" => c.phase = "user" \/ c.answer = "ok"
  PROVE  WinsIn([c EXCEPT !.phase = phase, !.answer = answer])
  BY DEF WinsIn, Callback

\* A step of a callback keeps it.
LEMMA AddressKept ==
  ASSUME OAuthInv, AddressWins, NEW k \in Callbacks,
         ReceiveCallback(k) \/ ArriveCallback(k) \/ HandlerStep(k)
  PROVE  AddressWins'
  <1> DEFINE c == callback[k]
  <1>1. callback \in [Callbacks -> Callback] /\ c \in Callback
    BY DEF OAuthInv, TypeOK
  <1>2. WinsIn(c)
    BY DEF AddressWins
  <1>3. ASSUME NEW d, callback' = [callback EXCEPT ![k] = d], WinsIn(d) PROVE AddressWins'
    BY <1>1, <1>3 DEF AddressWins
  <1>4. ASSUME NEW answer, Respond(k, answer), answer # "ok" \/ c.phase = "user"
        PROVE  AddressWins'
    <2>1. WinsIn([c EXCEPT !.phase = "responded", !.answer = answer])
      BY <1>1, <1>2, <1>4, WinsStill
    <2> QED BY <1>3, <1>4, <2>1 DEF Respond
  <1>5. CASE ReceiveCallback(k)
    <2>1. PICK b \in Browsers, address \in Addresses :
            LET r == Request(address, b) IN
            callback' = [callback EXCEPT ![k] =
              IF StateMatches(r) THEN [r EXCEPT !.phase = "exchange"]
              ELSE [r EXCEPT !.phase = "responded", !.answer = "unauthorized"]]
      BY <1>5 DEF ReceiveCallback
    <2>2. PICK r : r = Request(address, b)
      OBVIOUS
    <2>3. r \in Callback /\ r.phase = "idle" /\ r.answer = "none"
      BY <2>2, AddressesSent
    <2>4. /\ WinsIn([r EXCEPT !.phase = "exchange"])
          /\ WinsIn([r EXCEPT !.phase = "responded", !.answer = "unauthorized"])
      BY <2>3 DEF WinsIn, Callback
    <2> QED BY <1>3, <2>1, <2>2, <2>4
  <1>6. CASE ArriveCallback(k)
    <2>1. callback' = [callback EXCEPT ![k] = [c EXCEPT !.phase = "done"]]
      BY <1>6 DEF ArriveCallback
    <2>2. WinsIn([c EXCEPT !.phase = "done"])
      BY <1>1, <1>2 DEF WinsIn, Callback
    <2> QED BY <1>3, <2>1, <2>2
  <1>7. CASE Exchange(k)
    <2>1. CASE Continue(k, "profile")
      <3>1. WinsIn([c EXCEPT !.phase = "profile"])
        BY <1>1, <1>2 DEF WinsIn, Callback
      <3> QED BY <1>3, <2>1, <3>1 DEF Continue
    <2> QED BY <1>4, <1>7, <2>1 DEF Exchange
  <1>8. CASE FetchProfile(k)
    <2>1. ASSUME NEW r \in Reports,
                 callback' = [callback EXCEPT
                   ![k].report = r, ![k].address = r.email,
                   ![k].phase = IF r.email = Nil /\ c.provider = "github"
                                THEN "emails" ELSE "user"]
          PROVE  AddressWins'
      <3> DEFINE p == IF r.email = Nil /\ c.provider = "github" THEN "emails" ELSE "user"
                 d == [c EXCEPT !.report = r, !.address = r.email, !.phase = p]
      <3>1. callback' = [callback EXCEPT ![k] = d]
        BY <2>1
      <3>2. /\ d.phase = p /\ d.provider = c.provider /\ d.report = r
            /\ d.answer = c.answer
        BY <1>1 DEF Callback
      <3>3. c.answer = "none"
        BY <1>8 DEF FetchProfile, OAuthInv, RunningUnanswered
      <3> HIDE DEF d
      <3>4. WinsIn(d)
        BY <3>2, <3>3 DEF WinsIn
      <3> QED BY <1>3, <3>1, <3>4
    <2> QED BY <1>4, <1>8, <2>1 DEF FetchProfile
  <1>9. CASE FetchEmails(k)
    <2> DEFINE d == [c EXCEPT !.phase = "user", !.address = PrimaryEmail(c.report.listed)]
    <2>1. CASE callback' = [callback EXCEPT ![k] = d]
      <3>1. c.report \in Reports
        BY <1>1, <1>9 DEF FetchEmails, OAuthInv, EmailsReported, Callback
      <3>2. d.report = c.report /\ d.address = PrimaryEmail(c.report.listed)
        BY <1>1 DEF Callback
      <3> HIDE DEF d
      <3>3. WinsIn(d)
        BY <3>1, <3>2, PrimaryEmailWins DEF WinsIn
      <3> QED BY <1>3, <2>1, <3>3
    <2> QED BY <1>4, <1>9, <2>1 DEF FetchEmails
  <1>10. CASE SignIn(k)
    BY <1>4, <1>10 DEF SignIn
  <1> QED BY <1>5, <1>6, <1>7, <1>8, <1>9, <1>10 DEF HandlerStep

\* A GitHub user without public address signs in with a primary address that is
\* verified, if GitHub lists one, wherever it is in the list.
THEOREM PrimaryWins == Spec => []VerifiedPrimaryWins
  <1>1. Init => AddressWins
    BY DEF Init, NoCallback, AddressWins, WinsIn
  <1>2. OAuthInv /\ AddressWins /\ [Next]_vars => AddressWins'
    <2> SUFFICES ASSUME OAuthInv, AddressWins, [Next]_vars PROVE AddressWins'
      OBVIOUS
    <2>1. CASE UNCHANGED callback
      BY <2>1 DEF AddressWins
    <2> QED BY <2>1, AddressKept DEF Next, HandlerStep, StartLogin, ArriveLogin, Return,
                                     ExpireCookie, vars
  <1>3. AddressWins => VerifiedPrimaryWins
    BY DEF AddressWins, WinsIn, ListsPrimary, VerifiedPrimaryWins
  <1> QED BY <1>1, <1>2, <1>3, OAuthInvariant, PTL DEF Spec
=============================================================================
