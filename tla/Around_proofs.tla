---------------------------- MODULE Around_proofs ----------------------------
(***************************************************************************)
(* Proofs about the parts around the records: the login, the WebDAV        *)
(* adapter, the page texts, the fixity check and the import.  Each part    *)
(* has an invariant of its own, which the steps of the others leave alone. *)
(***************************************************************************)
EXTENDS Around, FiniteSetTheorems, TLAPS

-----------------------------------------------------------------------------
(***************************************************************************)
(* The login of a browser.  `Asking' is where a request still needs the    *)
(* realm; n tokens were signed when a request is looked at.                *)
(***************************************************************************)
Asking == {"start", "refresh", "code", "verify", "keys", "revoke"}

SignedBy(n, t) == t.no \in 0..n

RequestOK(j, n) ==
    /\ "pc" \in DOMAIN j
    /\ j.pc \in Asking \union {"none", "away", "restart", "answer"}
    /\ {"calm", "sent", "token"} \intersect DOMAIN j # {} => j.pc \in Asking \union {"answer"}
    /\ j.pc \in Asking \union {"answer"} =>
           /\ {"for", "sent", "calm"} \subseteq DOMAIN j
           /\ j.calm \in BOOLEAN
           /\ j.sent.access # Nil => SignedBy(n, j.sent.access)
    /\ j.pc \in {"verify", "keys", "revoke"} =>
           {"token", "then"} \subseteq DOMAIN j /\ j.then \in {"access", "refresh", "code", "logout"}
    /\ "token" \in DOMAIN j => j.pc \in {"verify", "keys", "revoke"} /\ SignedBy(n, j.token)
    /\ j.pc = "answer" =>
           \/ j.cookies = <<"keep">> \/ j.cookies = <<"delete">>
           \/ \E t : j.cookies = <<"set", t>> /\ SignedBy(n, t)

(***************************************************************************)
(* What a request relies on as long as the realm was up and its login      *)
(* live: the login still is, and the token it was given for it is neither  *)
(* expired nor signed with a key that was withdrawn.                       *)
(***************************************************************************)
CalmOK(j, its, gone) ==
    "calm" \in DOMAIN j /\ j.calm =>
        /\ j.for \in {"page", "logout"}
        /\ j.pc \in Asking => its.up /\ j.sent.refresh \in its.live
        /\ j.pc = "refresh" => j.for = "page"
        /\ j.pc # "code"
        /\ j.pc \in {"verify", "keys"} =>
              \/ j.for = "page" /\ j.then \in {"access", "refresh"}
              \/ j.for = "logout" /\ j.then = "logout"
        /\ j.pc \in {"verify", "keys"} /\ j.then # "access" =>
              /\ j.token \notin gone
              /\ j.pc = "keys" => j.token.key \in j.keys
              /\ j.pc = "verify" => j.token.key \in its.published
              /\ j.token.login = j.sent.refresh
        /\ j.pc = "revoke" => j.for = "logout" /\ j.token.login = j.sent.refresh
        /\ j.pc = "answer" /\ j.for = "page" => j.viewer = "signed in" /\ j.cookies # <<"delete">>
        /\ j.pc = "answer" /\ j.for = "logout" => j.sent.refresh \in its.made \ its.live

RealmOK(its) ==
    /\ DOMAIN its = {"up", "key", "published", "made", "live"}
    /\ its.up \in BOOLEAN
    /\ its.key \in its.published
    /\ its.live \subseteq its.made
    /\ its.made \subseteq Logins

CookiesOK(held, n) ==
    /\ DOMAIN held = {"access", "refresh", "state"}
    /\ held.access # Nil => SignedBy(n, held.access)

LoginInv ==
    /\ RealmOK(realm)
    /\ DOMAIN cache = {"found", "keys"}
    /\ CookiesOK(jar, minted)
    /\ minted \in Nat
    /\ \A t \in expired : SignedBy(minted, t)
    /\ DOMAIN request = Requests
    /\ \A r \in Requests : RequestOK(request[r], minted) /\ CalmOK(request[r], realm, expired)

(* What is in hand of one request.                                         *)
LEMMA TheRequest ==
    ASSUME LoginInv, NEW r \in Requests
    PROVE  /\ RequestOK(request[r], minted) /\ CalmOK(request[r], realm, expired)
           /\ minted \in Nat /\ RealmOK(realm)
BY DEF LoginInv

LEMMA SignedKept ==
    ASSUME NEW m \in Nat, NEW n \in Nat, m <= n, NEW t, SignedBy(m, t)
    PROVE  SignedBy(n, t)
BY DEF SignedBy

LEMMA RequestKept ==
    ASSUME NEW m \in Nat, NEW n \in Nat, m <= n, NEW j, RequestOK(j, m)
    PROVE  RequestOK(j, n)
<1>1. \A t : SignedBy(m, t) => SignedBy(n, t)
  BY SignedKept
<1>2. QED
  BY <1>1 DEF RequestOK

(* A request is put in the place of another, or leaves.                    *)
LEMMA OneRequest ==
    ASSUME LoginInv, NEW r \in Requests, NEW j,
           request' = [request EXCEPT ![r] = j],
           realm' = realm, expired' = expired,
           minted' \in Nat, minted <= minted',
           DOMAIN cache' = {"found", "keys"}, CookiesOK(jar', minted'),
           RequestOK(j, minted'), CalmOK(j, realm, expired)
    PROVE  LoginInv'
<1>1. \A t \in expired' : SignedBy(minted', t)
  BY SignedKept DEF LoginInv
<1>2. \A o \in Requests : RequestOK(request'[o], minted') /\ CalmOK(request'[o], realm', expired')
  <2>1. \A o \in Requests : request'[o] = IF o = r THEN j ELSE request[o]
    BY DEF LoginInv
  <2>2. \A o \in Requests : RequestOK(request[o], minted') /\ CalmOK(request[o], realm, expired)
    BY RequestKept DEF LoginInv
  <2>3. QED
    BY <2>1, <2>2
<1>3. QED
  BY <1>1, <1>2 DEF LoginInv

LEMMA LoginStarts == Login!SessionInit => LoginInv
BY DEF LoginInv, Login!SessionInit, Login!NoRequest, RealmOK, CookiesOK, RequestOK, CalmOK, Asking

(* None, whatever became of the one before.                                *)
LEMMA NoRequestOK ==
    ASSUME NEW n \in Nat, NEW its, NEW gone
    PROVE  RequestOK(Login!NoRequest, n) /\ CalmOK(Login!NoRequest, its, gone)
BY DEF Login!NoRequest, RequestOK, CalmOK, Asking

LEMMA SendKept ==
    ASSUME LoginInv, NEW r \in Requests, NEW for \in {"page", "logout"}, Login!Send(r, for)
    PROVE  LoginInv'
<1> DEFINE j == Login!Starts(for)
<1>1. RequestOK(j, minted) /\ CalmOK(j, realm, expired)
  BY DEF LoginInv, RealmOK, CookiesOK, RequestOK, CalmOK, Asking, Login!Starts, Login!Calm
<1>2. request' = [request EXCEPT ![r] = j]
  BY DEF Login!Send, Login!Sends, Login!GoesTo
<1>3. UNCHANGED <<realm, cache, expired, minted, jar>>
  BY DEF Login!Send
<1> HIDE DEF j
<1>4. QED
  BY <1>1, <1>2, <1>3, OneRequest DEF LoginInv

(* The answers a request may end with.                                     *)
LEMMA AnswerOK ==
    ASSUME NEW j, NEW n \in Nat, NEW its, NEW gone, NEW who, NEW cookies, 
           RequestOK(j, n), CalmOK(j, its, gone), j.pc \in Asking,
           cookies = <<"keep">> \/ cookies = <<"delete">> \/ \E t : cookies = <<"set", t>> /\ SignedBy(n, t),
           j.calm /\ j.for = "page" => who = "signed in" /\ cookies # <<"delete">>,
           j.calm => j.for # "logout"
    PROVE  LET k == [pc |-> "answer", for |-> j.for, sent |-> j.sent, viewer |-> who,
                     cookies |-> cookies, calm |-> j.calm]
           IN  RequestOK(k, n) /\ CalmOK(k, its, gone)
BY DEF RequestOK, CalmOK, Asking

LEMMA AnswerKept ==
    ASSUME LoginInv, NEW r \in Requests, request[r].pc \in Asking, NEW who, NEW cookies,
           Login!Answers(r, who, cookies),
           \/ cookies = <<"keep">> \/ cookies = <<"delete">>
           \/ \E t : cookies = <<"set", t>> /\ SignedBy(minted, t),
           request[r].calm /\ request[r].for = "page" => who = "signed in" /\ cookies # <<"delete">>,
           request[r].calm => request[r].for # "logout",
           UNCHANGED <<realm, expired, minted, jar>>, DOMAIN cache' = {"found", "keys"}
    PROVE  LoginInv'
<1> DEFINE k == [pc |-> "answer", for |-> request[r].for, sent |-> request[r].sent, viewer |-> who,
                 cookies |-> cookies, calm |-> request[r].calm]
<1>1. RequestOK(k, minted) /\ CalmOK(k, realm, expired)
  BY TheRequest, AnswerOK
<1>2. request' = [request EXCEPT ![r] = k]
  BY DEF Login!Answers, Login!GoesTo
<1> HIDE DEF k
<1>3. QED
  BY <1>1, <1>2, OneRequest DEF LoginInv

(* A calm request was sent with a login.                                   *)
LEMMA CalmHasLogin ==
    ASSUME LoginInv, NEW r \in Requests, request[r].pc \in Asking, request[r].calm
    PROVE  request[r].sent.refresh # Nil /\ request[r].for \in {"page", "logout"}
BY NilAssumption DEF LoginInv, RequestOK, CalmOK, RealmOK, Asking

LEMMA ResolveKept ==
    ASSUME LoginInv, NEW r \in Requests, Login!Resolve(r)
    PROVE  LoginInv'
<1> DEFINE j == request[r]
<1>0. UNCHANGED <<realm, cache, expired, minted, jar>> /\ j.pc = "start" /\ j.for = "page"
  BY DEF Login!Resolve, Login!At
<1>1. CASE j.sent.access # Nil
  <2> DEFINE k == Login!Verifies(j, j.sent.access, "access")
  <2>1. request' = [request EXCEPT ![r] = k]
    BY <1>1, Zenon DEF Login!Resolve, Login!GoesTo
  <2>2. RequestOK(k, minted) /\ CalmOK(k, realm, expired)
    BY <1>0, <1>1, TheRequest DEF Login!Verifies, RequestOK, CalmOK, Asking
  <2> HIDE DEF k
  <2>3. QED
    BY <1>0, <2>1, <2>2, OneRequest DEF LoginInv
<1>2. CASE j.sent.access = Nil /\ j.sent.refresh # Nil
  <2> DEFINE k == [j EXCEPT !.pc = "refresh"]
  <2>1. request' = [request EXCEPT ![r] = k]
    BY <1>2, Zenon DEF Login!Resolve, Login!GoesTo
  <2>2. RequestOK(k, minted) /\ CalmOK(k, realm, expired)
    BY <1>0, <1>2, TheRequest DEF RequestOK, CalmOK, Asking
  <2> HIDE DEF k
  <2>3. QED
    BY <1>0, <2>1, <2>2, OneRequest DEF LoginInv
<1>3. CASE j.sent.access = Nil /\ j.sent.refresh = Nil
  <2>1. Login!Answers(r, "public", <<"keep">>)
    BY <1>3, Zenon DEF Login!Resolve
  <2>2. j.pc \in Asking
    BY <1>0 DEF Asking
  <2>3. ~j.calm
    BY <1>3, <2>2, CalmHasLogin
  <2>4. QED
    BY <1>0, <2>1, <2>2, <2>3, AnswerKept DEF LoginInv
<1>4. QED
  BY <1>1, <1>2, <1>3

(* A token that was refused: unless the request was no longer calm, it was *)
(* the access cookie, and the refresh cookie is tried.                     *)
LEMMA RefusedKept ==
    ASSUME LoginInv, NEW r \in Requests, request[r].pc \in {"verify", "keys"},
           Login!Refused(r), request[r].calm => request[r].then = "access",
           UNCHANGED <<realm, expired, minted, jar>>, DOMAIN cache' = {"found", "keys"}
    PROVE  LoginInv'
<1> DEFINE j == request[r]
<1>0. RequestOK(j, minted) /\ CalmOK(j, realm, expired) /\ j.pc \in Asking
  BY TheRequest DEF Asking
<1>a. j.then \in {"access", "refresh", "code", "logout"}
  BY <1>0 DEF RequestOK
<1>1. CASE j.then = "access" /\ j.sent.refresh # Nil
  <2> DEFINE k == [pc |-> "refresh", for |-> j.for, sent |-> j.sent, calm |-> j.calm]
  <2>1. request' = [request EXCEPT ![r] = k]
    BY <1>1, Zenon DEF Login!Refused, Login!GoesTo
  <2>2. RequestOK(k, minted) /\ CalmOK(k, realm, expired)
    BY <1>0, <1>1 DEF RequestOK, CalmOK, Asking
  <2> HIDE DEF k
  <2>3. QED
    BY <2>1, <2>2, OneRequest DEF LoginInv
<1>2. CASE j.then = "access" /\ j.sent.refresh = Nil
  <2>1. Login!Answers(r, "public", <<"keep">>)
    BY <1>2, Zenon DEF Login!Refused
  <2>2. ~j.calm
    BY <1>0, <1>2, CalmHasLogin
  <2>3. QED
    BY <1>0, <2>1, <2>2, AnswerKept DEF LoginInv
<1>3. CASE j.then # "access"
  <2>1. ~j.calm
    BY <1>3
  <2>2. j.then \in {"refresh", "logout"} => Login!Answers(r, "public", <<"delete">>)
    <3>1. SUFFICES ASSUME j.then \in {"refresh", "logout"} PROVE Login!Answers(r, "public", <<"delete">>)
      OBVIOUS
    <3>2. j.then # "code" /\ j.then # "access"
      BY <3>1
    <3>3. QED
      BY <3>1, <3>2, Zenon DEF Login!Refused
  <2>3. j.then = "code" => Login!Answers(r, "public", <<"keep">>)
    BY Zenon DEF Login!Refused
  <2>4. QED
    BY <1>0, <1>a, <1>3, <2>1, <2>2, <2>3, AnswerKept DEF LoginInv
<1>4. QED
  BY <1>1, <1>2, <1>3

LEMMA AcceptedKept ==
    ASSUME LoginInv, NEW r \in Requests, request[r].pc \in {"verify", "keys"},
           Login!Accepted(r),
           UNCHANGED <<realm, expired, minted, jar>>, DOMAIN cache' = {"found", "keys"}
    PROVE  LoginInv'
<1> DEFINE j == request[r]
<1>0. RequestOK(j, minted) /\ CalmOK(j, realm, expired) /\ j.pc \in Asking
  BY TheRequest DEF Asking
<1>a. j.then \in {"access", "refresh", "code", "logout"} /\ SignedBy(minted, j.token)
  BY <1>0 DEF RequestOK
<1>b. j.calm => \/ j.for = "page" /\ j.then \in {"access", "refresh"}
                \/ j.for = "logout" /\ j.then = "logout"
  BY <1>0 DEF RequestOK, CalmOK
<1>1. CASE j.then = "access"
  <2>1. Login!Answers(r, "signed in", <<"keep">>)
    BY <1>1, Zenon DEF Login!Accepted
  <2>2. <<"keep">> # <<"delete">>
    OBVIOUS
  <2>3. QED
    BY <1>0, <1>b, <1>1, <2>1, <2>2, AnswerKept
<1>2. CASE j.then \in {"refresh", "code"}
  <2>1. Login!Answers(r, "signed in", <<"set", j.token>>)
    BY <1>2, Zenon DEF Login!Accepted
  <2>2. <<"set", j.token>> # <<"delete">>
    OBVIOUS
  <2>3. QED
    BY <1>0, <1>a, <1>b, <1>2, <2>1, <2>2, AnswerKept
<1>3. CASE j.then = "logout"
  <2> DEFINE k == [j EXCEPT !.pc = "revoke"]
  <2>0. j.then # "access" /\ j.then \notin {"refresh", "code"}
    BY <1>3
  <2>1. request' = [request EXCEPT ![r] = k]
    BY <1>3, <2>0, Zenon DEF Login!Accepted, Login!GoesTo
  <2>2. RequestOK(k, minted) /\ CalmOK(k, realm, expired)
    BY <1>0, <1>3 DEF RequestOK, CalmOK, Asking
  <2> HIDE DEF k
  <2>3. QED
    BY <2>1, <2>2, OneRequest DEF LoginInv
<1>4. QED
  BY <1>a, <1>1, <1>2, <1>3

LEMMA DecidesKept ==
    ASSUME LoginInv, NEW r \in Requests, request[r].pc \in {"verify", "keys"}, NEW keys,
           request[r].calm /\ request[r].then # "access" => request[r].token.key \in keys,
           Login!Decides(r, keys),
           UNCHANGED <<realm, expired, minted, jar>>, DOMAIN cache' = {"found", "keys"}
    PROVE  LoginInv'
<1>1. CASE request[r].token.key \in keys /\ request[r].token \notin expired
  BY <1>1, AcceptedKept DEF Login!Decides
<1>2. CASE ~(request[r].token.key \in keys /\ request[r].token \notin expired)
  <2>1. request[r].calm /\ request[r].then # "access" => request[r].token \notin expired
    BY TheRequest DEF RequestOK, CalmOK
  <2>2. QED
    BY <1>2, <2>1, RefusedKept DEF Login!Decides
<1>3. QED
  BY <1>1, <1>2

LEMMA VerifyKept ==
    ASSUME LoginInv, NEW r \in Requests,
           Login!VerifyCached(r) \/ Login!AskKeys(r) \/ Login!TakeKeys(r) \/ Login!Unreached(r)
    PROVE  LoginInv'
<1>0. DOMAIN cache = {"found", "keys"} /\ RequestOK(request[r], minted) /\ CalmOK(request[r], realm, expired)
  BY DEF LoginInv
<1>1. CASE Login!VerifyCached(r)
  <2>1. Login!Knows(r) /\ request[r].pc \in {"verify", "keys"} /\ Login!Decides(r, cache.keys)
        /\ UNCHANGED <<realm, expired, minted, jar>> /\ DOMAIN cache' = {"found", "keys"}
    BY <1>0, <1>1 DEF Login!VerifyCached, Login!At
  <2>2. request[r].token.key \in cache.keys
    BY <2>1 DEF Login!Knows
  <2>3. QED
    BY <2>1, <2>2, DecidesKept
<1>2. CASE Login!AskKeys(r)
  <2> DEFINE k == [pc |-> "keys", for |-> request[r].for, sent |-> request[r].sent,
                   calm |-> request[r].calm, token |-> request[r].token,
                   then |-> request[r].then, keys |-> realm.published]
  <2>1. /\ request' = [request EXCEPT ![r] = k] /\ request[r].pc = "verify"
        /\ UNCHANGED <<realm, expired, minted, jar>> /\ DOMAIN cache' = {"found", "keys"}
    BY <1>0, <1>2 DEF Login!AskKeys, Login!At, Login!GoesTo
  <2>2. RequestOK(k, minted) /\ CalmOK(k, realm, expired)
    BY <1>0, <2>1 DEF RequestOK, CalmOK, Asking
  <2> HIDE DEF k
  <2>3. QED
    BY <2>1, <2>2, OneRequest DEF LoginInv
<1>3. CASE Login!TakeKeys(r)
  <2>1. request[r].pc = "keys" /\ Login!Decides(r, request[r].keys)
        /\ UNCHANGED <<realm, expired, minted, jar>> /\ DOMAIN cache' = {"found", "keys"}
    BY <1>0, <1>3 DEF Login!TakeKeys, Login!At
  <2>2. request[r].calm /\ request[r].then # "access" => request[r].token.key \in request[r].keys
    BY <1>0, <2>1 DEF RequestOK, CalmOK
  <2>3. QED
    BY <2>1, <2>2, DecidesKept
<1>4. CASE Login!Unreached(r)
  <2>1. request[r].pc = "verify" /\ Login!Refused(r) /\ ~realm.up
        /\ UNCHANGED <<realm, cache, expired, minted, jar>>
    BY <1>4 DEF Login!Unreached, Login!At
  <2>2. ~request[r].calm
    BY <1>0, <2>1 DEF RequestOK, CalmOK, Asking
  <2>3. QED
    BY <1>0, <2>1, <2>2, RefusedKept
<1>5. QED
  BY <1>1, <1>2, <1>3, <1>4

(* The realm signs one more token, that is new.                            *)
LEMMA RefreshKept ==
    ASSUME LoginInv, NEW r \in Requests, Login!Refresh(r)
    PROVE  LoginInv'
<1> DEFINE j == request[r]
<1>0. /\ RequestOK(j, minted) /\ CalmOK(j, realm, expired) /\ j.pc \in Asking
      /\ j.pc = "refresh" \/ (j.pc = "start" /\ j.for = "logout")
      /\ UNCHANGED <<realm, expired, jar>>
      /\ DOMAIN cache' = {"found", "keys"} /\ minted \in Nat
  BY DEF LoginInv, Login!Refresh, Login!At, Asking
<1>1. CASE realm.up /\ j.sent.refresh \in realm.live
  <2> DEFINE t == Login!Token(j.sent.refresh)
             k == Login!Verifies(j, t, Login!RefreshFor(r))
  <2>1. request' = [request EXCEPT ![r] = k] /\ minted' = minted + 1
    BY <1>1 DEF Login!Refresh, Login!GoesTo
  <2>2. SignedBy(minted', t) /\ t \notin expired /\ t.key \in realm.published /\ t.login = j.sent.refresh
    BY <2>1 DEF LoginInv, RealmOK, SignedBy, Login!Token
  <2>3. RequestOK(j, minted')
    BY <1>0, <2>1, RequestKept
  <2>4. /\ j.for = "logout" => Login!RefreshFor(r) = "logout"
        /\ j.for # "logout" => Login!RefreshFor(r) = "refresh"
    BY DEF Login!RefreshFor
  <2> HIDE DEF t
  <2>5. RequestOK(k, minted') /\ CalmOK(k, realm, expired)
    BY <1>0, <1>1, <2>2, <2>3, <2>4 DEF Login!Verifies, RequestOK, CalmOK, Asking
  <2>6. CookiesOK(jar', minted')
    BY <1>0, <2>1, SignedKept DEF LoginInv, CookiesOK
  <2> HIDE DEF k
  <2>7. minted' \in Nat /\ minted <= minted'
    BY <1>0, <2>1
  <2>8. QED
    BY <1>0, <2>1, <2>5, <2>6, <2>7, OneRequest
<1>2. CASE ~(realm.up /\ j.sent.refresh \in realm.live)
  <2>1. ~j.calm
    BY <1>0, <1>2 DEF RequestOK, CalmOK
  <2>2. Login!Answers(r, "public", <<"delete">>) /\ minted' = minted
    BY <1>2 DEF Login!Refresh
  <2>3. QED
    BY <1>0, <2>1, <2>2, AnswerKept
<1>3. QED
  BY <1>1, <1>2

LEMMA LogoutAloneKept ==
    ASSUME LoginInv, NEW r \in Requests, Login!LogoutAlone(r)
    PROVE  LoginInv'
<1>1. /\ request[r].pc \in Asking /\ request[r].sent.refresh = Nil
      /\ Login!Answers(r, "public", <<"delete">>)
      /\ UNCHANGED <<realm, cache, expired, minted, jar>> /\ DOMAIN cache' = {"found", "keys"}
  BY DEF LoginInv, Login!LogoutAlone, Login!At, Asking
<1>2. ~request[r].calm
  BY <1>1, CalmHasLogin
<1>3. QED
  BY <1>1, <1>2, AnswerKept

-----------------------------------------------------------------------------
(***************************************************************************)
(* What changes for all requests at once: those that feel it are no longer *)
(* calm, the others rely on nothing that changed.                          *)
(***************************************************************************)
Uncalm(j) == [j EXCEPT !.calm = FALSE]

LEMMA Uncalmed ==
    ASSUME NEW j, NEW n \in Nat, RequestOK(j, n), "calm" \in DOMAIN j, NEW its, NEW gone
    PROVE  RequestOK(Uncalm(j), n) /\ CalmOK(Uncalm(j), its, gone)
BY DEF Uncalm, RequestOK, CalmOK, Asking

LEMMA FeltIs ==
    ASSUME LoginInv, NEW by, NEW r \in Requests
    PROVE  /\ "calm" \in DOMAIN request[r] /\ by[r] => Login!Felt(by)[r] = Uncalm(request[r])
           /\ ~("calm" \in DOMAIN request[r] /\ by[r]) => Login!Felt(by)[r] = request[r]
           /\ DOMAIN Login!Felt(by) = Requests
BY DEF Login!Felt, Uncalm

LEMMA FeltOK ==
    ASSUME LoginInv, NEW by, NEW its, NEW gone,
           \A r \in Requests : ~by[r] => CalmOK(request[r], its, gone)
    PROVE  \A r \in Requests : RequestOK(Login!Felt(by)[r], minted) /\ CalmOK(Login!Felt(by)[r], its, gone)
<1> TAKE r \in Requests
<1>1. RequestOK(request[r], minted) /\ minted \in Nat
  BY DEF LoginInv
<1>2. CASE "calm" \in DOMAIN request[r] /\ by[r]
  BY <1>1, <1>2, FeltIs, Uncalmed
<1>3. CASE "calm" \notin DOMAIN request[r]
  BY <1>1, <1>3, FeltIs DEF CalmOK
<1>4. CASE ~by[r]
  BY <1>1, <1>4, FeltIs
<1>5. QED
  BY <1>2, <1>3, <1>4

(* The world changes, and the requests with it.                            *)
LEMMA WorldKept ==
    ASSUME LoginInv, NEW by, request' = Login!Felt(by),
           RealmOK(realm'), UNCHANGED <<minted, jar, cache>>,
           \A t \in expired' : SignedBy(minted, t),
           \A r \in Requests : ~by[r] => CalmOK(request[r], realm', expired')
    PROVE  LoginInv'
<1>1. \A r \in Requests : RequestOK(request'[r], minted) /\ CalmOK(request'[r], realm', expired')
  BY FeltOK
<1>2. DOMAIN request' = Requests
  BY DEF Login!Felt
<1>3. QED
  BY <1>1, <1>2 DEF LoginInv

LEMMA ExpiresKept == LoginInv /\ Login!Expires => LoginInv'
<1> SUFFICES ASSUME LoginInv, Login!Expires PROVE LoginInv'
  OBVIOUS
<1>1. PICK t \in Login!Signed \ (expired \union {Nil}) :
          /\ expired' = expired \union {t}
          /\ request' = Login!Felt([r \in Requests |-> Login!Fresh(r) /\ request[r].token = t])
  BY DEF Login!Expires
<1> DEFINE by == [r \in Requests |-> Login!Fresh(r) /\ request[r].token = t]
<1>2. UNCHANGED <<realm, minted, jar, cache>>
  BY DEF Login!Expires
<1>3. SignedBy(minted, t)
  BY <1>1 DEF Login!Signed, LoginInv, CookiesOK, RequestOK
<1>4. ASSUME NEW r \in Requests, ~by[r] PROVE CalmOK(request[r], realm', expired')
  <2>1. CalmOK(request[r], realm, expired) /\ RequestOK(request[r], minted)
    BY DEF LoginInv
  <2>2. ~(Login!Fresh(r) /\ request[r].token = t)
    BY <1>4
  <2>3. request[r].pc \in {"verify", "keys"} /\ request[r].then # "access" => request[r].token # t
    BY <2>1, <2>2 DEF Login!Fresh, RequestOK
  <2>4. QED
    BY <1>1, <1>2, <2>1, <2>3 DEF CalmOK
<1>5. request' = Login!Felt(by) /\ \A o \in expired' : SignedBy(minted, o)
  BY <1>1, <1>3 DEF LoginInv
<1>6. RealmOK(realm')
  BY <1>2 DEF LoginInv
<1> HIDE DEF by
<1>7. QED
  BY <1>2, <1>4, <1>5, <1>6, WorldKept

LEMMA GoesDownKept == LoginInv /\ Login!GoesDown => LoginInv'
<1> SUFFICES ASSUME LoginInv, Login!GoesDown PROVE LoginInv'
  OBVIOUS
<1> DEFINE by == [r \in Requests |-> TRUE]
<1>1. request' = Login!Felt(by) /\ realm' = [realm EXCEPT !.up = FALSE]
      /\ UNCHANGED <<minted, jar, cache, expired>>
  BY DEF Login!GoesDown
<1>2. RealmOK(realm')
  BY <1>1 DEF LoginInv, RealmOK
<1>3. \A r \in Requests : by[r]
  OBVIOUS
<1> HIDE DEF by
<1>4. QED
  BY <1>1, <1>2, <1>3, WorldKept DEF LoginInv

LEMMA ComesBackKept == LoginInv /\ Login!ComesBack => LoginInv'
<1> SUFFICES ASSUME LoginInv, Login!ComesBack PROVE LoginInv'
  OBVIOUS
<1>1. realm' = [realm EXCEPT !.up = TRUE] /\ UNCHANGED <<minted, jar, cache, expired, request>>
  BY DEF Login!ComesBack
<1>2. RealmOK(realm')
  BY <1>1 DEF LoginInv, RealmOK
<1>3. ASSUME NEW r \in Requests PROVE CalmOK(request[r], realm', expired)
  <2>1. CalmOK(request[r], realm, expired) /\ RealmOK(realm)
    BY DEF LoginInv
  <2>2. realm'.live = realm.live /\ realm'.made = realm.made /\ realm'.published = realm.published /\ realm'.up
    BY <1>1, <2>1 DEF RealmOK
  <2>3. QED
    BY <2>1, <2>2 DEF CalmOK
<1>4. QED
  BY <1>1, <1>2, <1>3 DEF LoginInv

LEMMA RotatesKept ==
    ASSUME LoginInv, NEW w \in BOOLEAN, Login!Rotates(w)
    PROVE  LoginInv'
<1> DEFINE by == [r \in Requests |-> w /\ Login!Fresh(r)]
<1>1. /\ request' = Login!Felt(by) /\ UNCHANGED <<minted, jar, cache, expired>>
      /\ realm' = [realm EXCEPT !.key = @ + 1,
                       !.published = (IF w THEN {} ELSE @) \union {realm.key + 1}]
  BY DEF Login!Rotates
<1>2. RealmOK(realm')
  BY <1>1 DEF LoginInv, RealmOK
<1>3. ASSUME NEW r \in Requests, ~by[r] PROVE CalmOK(request[r], realm', expired')
  <2>1. CalmOK(request[r], realm, expired) /\ RealmOK(realm) /\ RequestOK(request[r], minted)
    BY DEF LoginInv
  <2>2. /\ realm'.live = realm.live /\ realm'.made = realm.made /\ realm'.up = realm.up
        /\ ~w => realm.published \subseteq realm'.published
    BY <1>1, <2>1 DEF RealmOK
  <2>3. request[r].pc = "verify" /\ request[r].then # "access" => ~w
    BY <1>3, <2>1 DEF Login!Fresh, RequestOK
  <2>4. QED
    BY <1>1, <2>1, <2>2, <2>3 DEF CalmOK
<1> HIDE DEF by
<1>4. QED
  BY <1>1, <1>2, <1>3, WorldKept DEF LoginInv

LEMMA EndsLoginKept ==
    ASSUME LoginInv, NEW l, Login!EndsLogin(l)
    PROVE  LoginInv'
<1> DEFINE by == [r \in Requests |-> Login!Of(r, l)]
<1>1. /\ request' = Login!Felt(by) /\ UNCHANGED <<minted, jar, cache, expired>>
      /\ realm' = [realm EXCEPT !.live = @ \ {l}]
  BY DEF Login!EndsLogin
<1>2. RealmOK(realm')
  BY <1>1 DEF LoginInv, RealmOK
<1>3. ASSUME NEW r \in Requests, ~by[r] PROVE CalmOK(request[r], realm', expired')
  <2>1. CalmOK(request[r], realm, expired) /\ RealmOK(realm) /\ RequestOK(request[r], minted)
    BY DEF LoginInv
  <2>2. /\ realm'.live = realm.live \ {l} /\ realm'.made = realm.made /\ realm'.up = realm.up
        /\ realm'.published = realm.published
    BY <1>1, <2>1 DEF RealmOK
  <2>3. request[r].pc \in Asking => request[r].sent.refresh # l
    BY <1>3, <2>1 DEF Login!Of, RequestOK, Asking
  <2>4. QED
    BY <1>1, <2>1, <2>2, <2>3 DEF CalmOK
<1> HIDE DEF by
<1>4. QED
  BY <1>1, <1>2, <1>3, WorldKept DEF LoginInv

LEMMA RestartsKept == LoginInv /\ Login!Restarts => LoginInv'
<1> SUFFICES ASSUME LoginInv, Login!Restarts PROVE LoginInv'
  OBVIOUS
<1>1. /\ cache' = [found |-> FALSE, keys |-> Nil]
      /\ request' = [r \in Requests |-> IF request[r].pc \in {"none", "away", "restart"}
                                        THEN request[r] ELSE Login!NoRequest]
      /\ UNCHANGED <<realm, expired, minted, jar>>
  BY DEF Login!Restarts
<1>2. \A r \in Requests : RequestOK(request'[r], minted) /\ CalmOK(request'[r], realm, expired)
  <2> TAKE r \in Requests
  <2>1. request'[r] = request[r] \/ request'[r] = Login!NoRequest
    BY <1>1
  <2>2. QED
    BY <2>1, NoRequestOK DEF LoginInv
<1>3. QED
  BY <1>1, <1>2 DEF LoginInv

(* A logout that reached the realm takes its login from all requests.      *)
LEMMA RevokeKept ==
    ASSUME LoginInv, NEW r \in Requests, Login!Revoke(r)
    PROVE  LoginInv'
<1> DEFINE l == request[r].token.login
           by == [o \in Requests |-> realm.up /\ Login!Of(o, l)]
           felt == Login!Felt(by)
           k == [pc |-> "answer", for |-> "logout", sent |-> felt[r].sent, viewer |-> "public",
                 cookies |-> <<"delete">>, calm |-> request[r].calm]
<1>1. /\ request[r].pc = "revoke" /\ UNCHANGED <<minted, jar, cache, expired>>
      /\ realm' = IF realm.up THEN [realm EXCEPT !.live = @ \ {l}] ELSE realm
      /\ request' = [felt EXCEPT ![r] = k]
  BY DEF Login!Revoke, Login!At
<1>2. RealmOK(realm') /\ RealmOK(realm)
  BY <1>1 DEF LoginInv, RealmOK
<1>3. /\ realm'.live = IF realm.up THEN realm.live \ {l} ELSE realm.live
      /\ realm'.made = realm.made /\ realm'.up = realm.up /\ realm'.published = realm.published
  BY <1>1, <1>2 DEF RealmOK
<1>4. ASSUME NEW o \in Requests, ~by[o] PROVE CalmOK(request[o], realm', expired')
  <2>1. CalmOK(request[o], realm, expired) /\ RequestOK(request[o], minted)
    BY DEF LoginInv
  <2>2. realm.up /\ request[o].pc \in Asking => request[o].sent.refresh # l
    BY <1>4, <2>1 DEF Login!Of, RequestOK, Asking
  <2>3. UNCHANGED expired
    BY <1>1
  <2> HIDE DEF l, by
  <2>4. CASE realm.up
    BY <1>3, <2>1, <2>2, <2>3, <2>4 DEF CalmOK
  <2>5. CASE ~realm.up
    BY <1>3, <2>1, <2>3, <2>5 DEF CalmOK
  <2>6. QED
    BY <2>4, <2>5
<1>5. RequestOK(request[r], minted) /\ CalmOK(request[r], realm, expired)
  BY DEF LoginInv
<1>6. felt[r].sent = request[r].sent
  <2>1. "calm" \in DOMAIN request[r] /\ "sent" \in DOMAIN request[r]
    BY <1>1, <1>5 DEF RequestOK, Asking
  <2>2. felt[r] = request[r] \/ felt[r] = Uncalm(request[r])
    BY FeltIs
  <2>3. QED
    BY <2>1, <2>2 DEF Uncalm
<1>7. RequestOK(k, minted)
  BY <1>1, <1>5, <1>6 DEF RequestOK, Asking
<1>8. CalmOK(k, realm', expired')
  <2>1. request[r].calm => /\ realm.up /\ l = request[r].sent.refresh
                           /\ request[r].sent.refresh \in realm.made
    BY <1>1, <1>2, <1>5 DEF RequestOK, CalmOK, RealmOK, Asking
  <2>2. QED
    BY <1>3, <1>6, <2>1 DEF CalmOK, Asking
<1>9. \A o \in Requests : RequestOK(felt[o], minted) /\ CalmOK(felt[o], realm', expired')
  <2> HIDE DEF by
  <2>1. QED
    BY <1>4, FeltOK
<1>10. DOMAIN felt = Requests
  BY DEF Login!Felt
<1> HIDE DEF felt, k
<1>11. \A o \in Requests : request'[o] = IF o = r THEN k ELSE felt[o]
  BY <1>1, <1>10
<1>12. \A o \in Requests : RequestOK(request'[o], minted) /\ CalmOK(request'[o], realm', expired')
  BY <1>7, <1>8, <1>9, <1>11
<1>13. DOMAIN request' = Requests
  BY <1>1, <1>10
<1>14. QED
  BY <1>1, <1>2, <1>12, <1>13 DEF LoginInv

(* A login is started, given up, comes back, or gets its tokens.           *)
LEMMA StartLoginKept ==
    ASSUME LoginInv, NEW r \in Requests, Login!StartLogin(r)
    PROVE  LoginInv'
<1>1. UNCHANGED <<realm, expired, minted>>
  BY DEF Login!StartLogin
<1>2. CASE Login!Reached
  <2> DEFINE k == [pc |-> "away", state |-> sends']
  <2>1. /\ request' = [request EXCEPT ![r] = k]
        /\ jar' = [jar EXCEPT !.state = sends'] /\ cache' = [cache EXCEPT !.found = TRUE]
    BY <1>2 DEF Login!StartLogin, Login!GoesTo
  <2>2. RequestOK(k, minted) /\ CalmOK(k, realm, expired)
    BY DEF RequestOK, CalmOK, Asking
  <2>3. CookiesOK(jar', minted) /\ DOMAIN cache' = {"found", "keys"}
    BY <2>1 DEF LoginInv, CookiesOK
  <2> HIDE DEF k
  <2>4. QED
    BY <1>1, <2>1, <2>2, <2>3, OneRequest DEF LoginInv
<1>3. CASE ~Login!Reached
  <2>1. request' = [request EXCEPT ![r] = Login!NoRequest] /\ UNCHANGED <<jar, cache>>
    BY <1>3 DEF Login!StartLogin, Login!GoesTo
  <2>2. QED
    BY <1>1, <2>1, NoRequestOK, OneRequest DEF LoginInv
<1>4. QED
  BY <1>2, <1>3

LEMMA GivesUpKept ==
    ASSUME LoginInv, NEW r \in Requests, Login!GivesUp(r)
    PROVE  LoginInv'
<1>1. request' = [request EXCEPT ![r] = Login!NoRequest] /\ UNCHANGED <<realm, cache, expired, minted, jar>>
  BY DEF Login!GivesUp, Login!GoesTo
<1>2. QED
  BY <1>1, NoRequestOK, OneRequest DEF LoginInv

LEMMA CallbackKept ==
    ASSUME LoginInv, NEW r \in Requests, Login!Callback(r)
    PROVE  LoginInv'
<1>1. UNCHANGED <<realm, cache, expired, minted, jar>>
  BY DEF Login!Callback
<1> DEFINE again == [pc |-> "restart"]
           k == [pc |-> "code", for |-> "callback", sent |-> jar, calm |-> FALSE]
<1>2. \/ Login!GoesTo(r, Login!NoRequest) \/ Login!GoesTo(r, again) \/ Login!GoesTo(r, k)
  <2>1. CASE jar.state = Nil
    BY <2>1, Zenon DEF Login!Callback
  <2>2. CASE jar.state # Nil /\ jar.state # request[r].state
    BY <2>2, Zenon DEF Login!Callback
  <2>3. CASE jar.state # Nil /\ jar.state = request[r].state
    BY <2>3, Zenon DEF Login!Callback
  <2>4. QED
    BY <2>1, <2>2, <2>3
<1>3. RequestOK(again, minted) /\ CalmOK(again, realm, expired)
  BY DEF RequestOK, CalmOK, Asking
<1>4. RequestOK(k, minted) /\ CalmOK(k, realm, expired)
  BY DEF LoginInv, CookiesOK, RequestOK, CalmOK, Asking
<1> HIDE DEF again, k
<1>5. QED
  BY <1>1, <1>2, <1>3, <1>4, NoRequestOK, OneRequest DEF LoginInv, Login!GoesTo

LEMMA FetchTokensKept ==
    ASSUME LoginInv, NEW r \in Requests, Login!FetchTokens(r)
    PROVE  LoginInv'
<1> DEFINE j == request[r]
<1>0. /\ RequestOK(j, minted) /\ CalmOK(j, realm, expired) /\ RealmOK(realm)
      /\ j.pc = "code" /\ j.pc \in Asking /\ ~j.calm /\ UNCHANGED <<expired, jar>> /\ minted \in Nat
  BY DEF LoginInv, Login!FetchTokens, Login!At, RequestOK, CalmOK, Asking
<1>1. CASE realm.up
  <2>1. PICK l \in Logins \ realm.made :
           /\ minted' = minted + 1
           /\ realm' = [realm EXCEPT !.made = @ \union {l}, !.live = @ \union {l}]
           /\ cache' = [cache EXCEPT !.found = TRUE]
           /\ Login!GoesTo(r, Login!Verifies(j, Login!Token(l), "code"))
    BY <1>1 DEF Login!FetchTokens
  <2> DEFINE t == Login!Token(l)
             k == Login!Verifies(j, t, "code")
  <2>2. RealmOK(realm') /\ DOMAIN cache' = {"found", "keys"}
    BY <1>0, <2>1 DEF LoginInv, RealmOK
  <2>3. SignedBy(minted', t)
    BY <1>0, <2>1 DEF Login!Token, SignedBy
  <2>a. minted' \in Nat /\ minted <= minted'
    BY <1>0, <2>1
  <2>4. RequestOK(j, minted')
    BY <1>0, <2>a, RequestKept
  <2> HIDE DEF t
  <2>5. RequestOK(k, minted') /\ CalmOK(k, realm', expired')
    BY <1>0, <2>3, <2>4 DEF Login!Verifies, RequestOK, CalmOK, Asking
  <2> HIDE DEF k
  <2>6. ASSUME NEW o \in Requests
        PROVE  RequestOK(request[o], minted') /\ CalmOK(request[o], realm', expired')
    <3>1. RequestOK(request[o], minted) /\ CalmOK(request[o], realm, expired)
      BY DEF LoginInv
    <3>2. /\ realm'.made = realm.made \union {l} /\ realm'.live = realm.live \union {l}
          /\ realm'.up = realm.up /\ realm'.published = realm.published
      BY <1>0, <2>1 DEF RealmOK
    <3>3. CalmOK(request[o], realm', expired')
      BY <1>0, <3>1, <3>2 DEF CalmOK
    <3>4. QED
      BY <1>0, <2>1, <3>1, <3>3, RequestKept
  <2>7. \A o \in expired' : SignedBy(minted', o)
    BY <1>0, <2>1, SignedKept DEF LoginInv
  <2>8. CookiesOK(jar', minted')
    BY <1>0, <2>1, SignedKept DEF LoginInv, CookiesOK
  <2>9. request' = [request EXCEPT ![r] = k]
    BY <2>1 DEF k, t, Login!GoesTo
  <2>10. /\ DOMAIN request' = Requests /\ minted' \in Nat
         /\ \A o \in Requests : request'[o] = IF o = r THEN k ELSE request[o]
    BY <1>0, <2>1, <2>9 DEF LoginInv
  <2>11. QED
    BY <2>2, <2>5, <2>6, <2>7, <2>8, <2>10 DEF LoginInv
<1>2. CASE ~realm.up
  <2>1. Login!Answers(r, "public", <<"keep">>) /\ UNCHANGED <<realm, cache, minted>>
    BY <1>2 DEF Login!FetchTokens
  <2>2. QED
    BY <1>0, <2>1, AnswerKept DEF LoginInv
<1>3. QED
  BY <1>1, <1>2

(* The answer arrives, and its cookies with it.                            *)
LEMMA ArriveKept ==
    ASSUME LoginInv, NEW r \in Requests, Login!Arrive(r)
    PROVE  LoginInv'
<1> DEFINE j == request[r]
<1>1. /\ request' = [request EXCEPT ![r] = Login!NoRequest]
      /\ jar' = Login!SetCookies(j) /\ UNCHANGED <<realm, cache, expired, minted>>
      /\ j.pc = "answer"
  BY DEF Login!Arrive, Login!GoesTo, Login!At
<1>2. CookiesOK(jar', minted)
  <2>1. RequestOK(j, minted) /\ CookiesOK(jar, minted)
    BY DEF LoginInv
  <2>2. CASE j.cookies = <<"keep">>
    <3>1. <<"keep">> # <<"delete">> /\ j.cookies[1] # "set"
      BY <2>2
    <3>2. Login!SetCookies(j) = jar
      BY <2>2, <3>1, Zenon DEF Login!SetCookies
    <3>3. QED
      BY <1>1, <2>1, <3>2
  <2>3. CASE j.cookies = <<"delete">>
    <3>1. <<"delete">> # <<"keep">> /\ j.cookies[1] # "set"
      BY <2>3
    <3>2. Login!SetCookies(j) = [jar EXCEPT !.access = Nil, !.refresh = Nil]
      BY <2>3, <3>1, Zenon DEF Login!SetCookies
    <3>3. QED
      BY <1>1, <2>1, <3>2 DEF CookiesOK
  <2>4. ASSUME NEW t, j.cookies = <<"set", t>>, SignedBy(minted, t) PROVE CookiesOK(jar', minted)
    <3>1. <<"set", t>> # <<"keep">> /\ <<"set", t>> # <<"delete">> /\ j.cookies[1] = "set" /\ j.cookies[2] = t
      BY <2>4
    <3>2. Login!SetCookies(j) = [access |-> j.cookies[2], refresh |-> j.cookies[2].login,
                                 state |-> IF j.for = "callback" THEN Nil ELSE jar.state]
      BY <2>4, <3>1, Zenon DEF Login!SetCookies
    <3>3. QED
      BY <1>1, <2>4, <3>1, <3>2 DEF CookiesOK
  <2>5. QED
    BY <1>1, <2>1, <2>2, <2>3, <2>4 DEF RequestOK
<1>3. QED
  BY <1>1, <1>2, NoRequestOK, OneRequest DEF LoginInv

LEMMA LoginStep == LoginInv /\ Login!SessionNext => LoginInv'
<1> SUFFICES ASSUME LoginInv, Login!SessionNext PROVE LoginInv'
  OBVIOUS
<1>1. ASSUME NEW r \in Requests,
             \/ \E for \in {"page", "logout"} : Login!Send(r, for)
             \/ Login!StartLogin(r) \/ Login!GivesUp(r) \/ Login!FetchTokens(r)
             \/ Login!Callback(r)
             \/ Login!Resolve(r) \/ Login!VerifyCached(r) \/ Login!AskKeys(r)
             \/ Login!TakeKeys(r) \/ Login!Unreached(r)
             \/ Login!Refresh(r) \/ Login!LogoutAlone(r) \/ Login!Revoke(r) \/ Login!Arrive(r)
      PROVE  LoginInv'
  BY <1>1, SendKept, StartLoginKept, GivesUpKept, FetchTokensKept, CallbackKept, ResolveKept,
     VerifyKept, RefreshKept, LogoutAloneKept, RevokeKept, ArriveKept
<1>2. CASE Login!World
  BY <1>2, ExpiresKept, GoesDownKept, ComesBackKept, RestartsKept, RotatesKept, EndsLoginKept
  DEF Login!World
<1>3. QED
  BY <1>1, <1>2 DEF Login!SessionNext

LEMMA LoginAlways == AroundSpec => []LoginInv
<1>1. AroundInit => LoginInv
  BY LoginStarts DEF AroundInit
<1>2. LoginInv /\ [AroundNext]_aroundVars => LoginInv'
  <2> SUFFICES ASSUME LoginInv, [AroundNext]_aroundVars PROVE LoginInv'
    OBVIOUS
  <2>1. Login!SessionNext \/ UNCHANGED loginVars
    BY DEF AroundNext, aroundVars, OfTexts
  <2>2. CASE UNCHANGED loginVars
    BY <2>2 DEF loginVars, LoginInv
  <2>3. QED
    BY <2>1, <2>2, LoginStep
<1>3. QED
  BY <1>1, <1>2, PTL DEF AroundSpec

(***************************************************************************)
(* For any number of tabs, logins, keys and troubles: a page asked for     *)
(* with a live login is answered to the signed-in viewer and never signs   *)
(* the browser out, as long as the realm can be reached (viewer_of and     *)
(* verify_access).                                                         *)
(***************************************************************************)
THEOREM GrantedIsServedHolds == AroundSpec => []GrantedIsServed
<1>1. LoginInv => GrantedIsServed
  BY DEF LoginInv, RequestOK, CalmOK, GrantedIsServed, Login!GrantedIsServed, Login!At
<1>2. QED
  BY <1>1, LoginAlways, PTL

(***************************************************************************)
(* And a logout that reached the realm has ended the login there, wherever *)
(* a late answer puts its refresh token back (logout_url and revoke).      *)
(***************************************************************************)
THEOREM LogoutEndsHolds == AroundSpec => []LogoutEnds
<1>1. LoginInv => LogoutEnds
  BY DEF LoginInv, RequestOK, CalmOK, LogoutEnds, Login!LogoutEnds, Login!At
<1>2. QED
  BY <1>1, LoginAlways, PTL

-----------------------------------------------------------------------------
(***************************************************************************)
(* The WebDAV adapter.  A folder that is not there holds no file, and a    *)
(* call that is under way is a delete exactly where _delete_once is.       *)
(***************************************************************************)
Deleting == {<<"find">>, <<"remove">>}
Putting == {<<"send", "first">>, <<"send", "last">>} \union {<<"make", n>> : n \in 1..Depth}
Standing == {<<"idle">>, <<"placed">>, <<"ok">>, <<"refused">>, <<"raised">>}

DavInv ==
    /\ files \in [FolderKeys -> Values \union {Absent}]
    /\ folders \in 0..Depth
    /\ folders < Depth => \A k \in FolderKeys : files[k] = Absent
    /\ step \in [Clients -> Deleting \union Putting \union Standing]
    /\ call \in [Clients -> Dav!Puts \union {Dav!DeleteFolder}]
    /\ putFirst \in [Clients -> BOOLEAN]
    /\ \A c \in Clients :
          /\ step[c] \in Deleting => call[c] = Dav!DeleteFolder
          /\ step[c] \in Putting => call[c] \in Dav!Puts

LEMMA DavStarts == Dav!DavInit => DavInv
BY DepthAssumption
DEF DavInv, Dav!DavInit, Deleting, Putting, Standing, Dav!Puts, Dav!DeleteFolder

(* What each place of a call is to the port.                               *)
PhaseOf(s) ==
    IF s \in Deleting \union Putting THEN "begun"
    ELSE IF s = <<"placed">> THEN "effective" ELSE s[1]

LEMMA Places ==
    ASSUME NEW s \in Deleting \union Putting \union Standing
    PROVE  /\ s[1] \in Dav!UnderWay <=> s \in Deleting \union Putting
           /\ s[1] \in {"make", "send"} <=> s \in Putting
           /\ s[1] = "send" => s \in Putting
           /\ s[1] = "placed" <=> s = <<"placed">>
           /\ s[1] \in {"ok", "refused", "raised"} => s \in Standing
           /\ s \in Standing => s \notin Deleting \union Putting
           /\ s \in Deleting => s \notin Putting
BY DEF Deleting, Putting, Standing, Dav!UnderWay

LEMMA PhaseIs == DavInv => Dav!Phase = [c \in Clients |-> PhaseOf(step[c])]
<1> SUFFICES ASSUME DavInv PROVE \A c \in Clients : Dav!Phase[c] = PhaseOf(step[c])
  BY DEF Dav!Phase
<1> TAKE c \in Clients
<1>1. step[c] \in Deleting \union Putting \union Standing
  BY DEF DavInv
<1>2. CASE step[c] \in Deleting \union Putting
  <2>1. step[c][1] \in Dav!UnderWay /\ step[c][1] # "placed"
    BY <1>2 DEF Deleting, Putting, Dav!UnderWay
  <2>2. Dav!Phase[c] = "begun"
    BY <2>1, Zenon DEF Dav!Phase
  <2>3. QED
    BY <1>2, <2>2 DEF PhaseOf
<1>3. CASE step[c] = <<"placed">>
  <2>1. step[c][1] \notin Dav!UnderWay /\ step[c][1] = "placed"
    BY <1>3 DEF Dav!UnderWay
  <2>2. Dav!Phase[c] = "effective"
    BY <2>1, Zenon DEF Dav!Phase
  <2>3. QED
    BY <1>1, <1>3, <2>1, <2>2, Places DEF PhaseOf
<1>4. CASE step[c] \notin Deleting \union Putting /\ step[c] # <<"placed">>
  <2>1. step[c][1] \notin Dav!UnderWay /\ step[c][1] # "placed"
    BY <1>1, <1>4, Places
  <2>2. Dav!Phase[c] = step[c][1]
    BY <2>1, Zenon DEF Dav!Phase
  <2>3. QED
    BY <1>4, <2>2 DEF PhaseOf
<1>5. QED
  BY <1>2, <1>3, <1>4

LEMMA PhaseIsNext == DavInv' => Dav!Phase' = [c \in Clients |-> PhaseOf(step'[c])]
<1> SUFFICES ASSUME DavInv' PROVE \A c \in Clients : Dav!Phase'[c] = PhaseOf(step'[c])
  BY DEF Dav!Phase
<1> TAKE c \in Clients
<1>1. step'[c] \in Deleting \union Putting \union Standing
  BY DEF DavInv
<1>2. CASE step'[c] \in Deleting \union Putting
  <2>1. step'[c][1] \in Dav!UnderWay /\ step'[c][1] # "placed"
    BY <1>2 DEF Deleting, Putting, Dav!UnderWay
  <2>2. Dav!Phase'[c] = "begun"
    BY <2>1, Zenon DEF Dav!Phase
  <2>3. QED
    BY <1>2, <2>2 DEF PhaseOf
<1>3. CASE step'[c] = <<"placed">>
  <2>1. step'[c][1] \notin Dav!UnderWay /\ step'[c][1] = "placed"
    BY <1>3 DEF Dav!UnderWay
  <2>2. Dav!Phase'[c] = "effective"
    BY <2>1, Zenon DEF Dav!Phase
  <2>3. QED
    BY <1>1, <1>3, <2>1, <2>2, Places DEF PhaseOf
<1>4. CASE step'[c] \notin Deleting \union Putting /\ step'[c] # <<"placed">>
  <2>1. step'[c][1] \notin Dav!UnderWay /\ step'[c][1] # "placed"
    BY <1>1, <1>4, Places
  <2>2. Dav!Phase'[c] = step'[c][1]
    BY <2>1, Zenon DEF Dav!Phase
  <2>3. QED
    BY <1>4, <2>2 DEF PhaseOf
<1>5. QED
  BY <1>2, <1>3, <1>4

(* A call goes to another place, and what the port sees of it.             *)
LEMMA PhaseGoes ==
    ASSUME DavInv, DavInv', NEW c \in Clients, NEW s, Dav!GoesTo(c, s)
    PROVE  /\ Dav!Phase[c] = PhaseOf(step[c])
           /\ Dav!Phase' = [Dav!Phase EXCEPT ![c] = PhaseOf(s)]
<1>1. step' = [step EXCEPT ![c] = s] /\ DOMAIN step = Clients
  BY DEF Dav!GoesTo, DavInv
<1>2. QED
  BY <1>1, PhaseIs, PhaseIsNext

LEMMA PhasesOf ==
    /\ PhaseOf(<<"idle">>) = "idle" /\ PhaseOf(<<"placed">>) = "effective"
    /\ PhaseOf(<<"ok">>) = "ok" /\ PhaseOf(<<"refused">>) = "refused" /\ PhaseOf(<<"raised">>) = "raised"
    /\ \A s \in Deleting \union Putting : PhaseOf(s) = "begun"
BY DEF PhaseOf, Deleting, Putting

(* Where a call, or an attempt of it, begins.                              *)
LEMMA StartsIs ==
    ASSUME NEW delete \in BOOLEAN, NEW first \in BOOLEAN
    PROVE  Dav!Starts(delete, first) \in IF delete THEN Deleting ELSE Putting
<1>1. CASE delete
  <2>1. Dav!Starts(delete, first) = <<"find">>
    BY <1>1, Zenon DEF Dav!Starts
  <2>2. QED
    BY <1>1, <2>1 DEF Deleting
<1>2. CASE ~delete /\ first
  <2>1. Dav!Starts(delete, first) = <<"send", "first">>
    BY <1>2, Zenon DEF Dav!Starts
  <2>2. QED
    BY <1>2, <2>1 DEF Putting
<1>3. CASE ~delete /\ ~first
  <2>1. Dav!Starts(delete, first) = <<"make", 1>>
    BY <1>3, Zenon DEF Dav!Starts
  <2>2. <<"make", 1>> \in Putting
    BY DepthAssumption DEF Putting
  <2>3. QED
    BY <1>3, <2>1, <2>2
<1>4. QED
  BY <1>1, <1>2, <1>3

(* A call moves on while the server stays as it is.                        *)
LEMMA DavMoves ==
    ASSUME DavInv, NEW c \in Clients, NEW s \in Deleting \union Putting \union Standing,
           Dav!GoesTo(c, s), UNCHANGED <<files, folders, call, putFirst>>,
           s \in Deleting => call[c] = Dav!DeleteFolder,
           s \in Putting => call[c] \in Dav!Puts
    PROVE  DavInv'
BY DEF DavInv, Dav!GoesTo

LEMMA OpOf ==
    ASSUME NEW a \in Dav!Puts \union {Dav!DeleteFolder}
    PROVE  /\ a.op = "delete" <=> a = Dav!DeleteFolder
           /\ a.op \in {"create", "replace"} <=> a \in Dav!Puts
           /\ a \in Dav!Port!Calls
BY DEF Dav!Puts, Dav!DeleteFolder, Dav!Port!Calls

LEMMA BeginKept ==
    ASSUME DavInv, NEW c \in Clients, Dav!Begin(c)
    PROVE  DavInv' /\ Dav!Port!Begin(c)
<1>1. PICK new \in Dav!Puts \union {Dav!DeleteFolder}, first \in BOOLEAN :
          /\ step[c] = <<"idle">>
          /\ Dav!GoesTo(c, Dav!Starts(new = Dav!DeleteFolder, first))
          /\ call' = [call EXCEPT ![c] = new]
          /\ putFirst' = [putFirst EXCEPT ![c] = first]
          /\ UNCHANGED <<files, folders>>
  BY DEF Dav!Begin, Dav!At
<1> DEFINE s == Dav!Starts(new = Dav!DeleteFolder, first)
<1>2. s \in IF new = Dav!DeleteFolder THEN Deleting ELSE Putting
  BY StartsIs
<1> HIDE DEF s
<1>3. Dav!DeleteFolder \notin Dav!Puts /\ Deleting \intersect Putting = {}
  BY DEF Dav!DeleteFolder, Dav!Puts, Deleting, Putting
<1>4. step' = [step EXCEPT ![c] = s]
  BY <1>1 DEF s, Dav!GoesTo
<1>5. DavInv'
  BY <1>1, <1>2, <1>3, <1>4 DEF DavInv
<1>6. Dav!Phase[c] = "idle" /\ Dav!Phase' = [Dav!Phase EXCEPT ![c] = "begun"]
  BY <1>1, <1>2, <1>5, PhaseGoes, PhasesOf DEF s
<1>7. new \in Dav!Port!Calls
  BY OpOf
<1>8. QED
  BY <1>1, <1>5, <1>6, <1>7 DEF Dav!Port!Begin, Dav!Port!Goes

(* An attempt is made again, or its error raised.                          *)
LEMMA AgainKept ==
    ASSUME DavInv, NEW c \in Clients, step[c] \in Deleting \union Putting, Dav!Again(c),
           UNCHANGED <<files, folders, call, putFirst>>
    PROVE  DavInv' /\ (Dav!Port!Raise(c) \/ UNCHANGED <<files, Dav!Phase, call>>)
<1>1. CASE tries[c] > 0
  <2> DEFINE delete == call[c].op = "delete"
             s == Dav!Starts(delete, putFirst[c])
  <2>1. Dav!GoesTo(c, s)
    BY <1>1 DEF Dav!Again
  <2>2. /\ step[c] \in Deleting => delete /\ call[c] = Dav!DeleteFolder
        /\ step[c] \in Putting => ~delete /\ call[c] \in Dav!Puts
    BY OpOf DEF DavInv, Dav!Puts, Dav!DeleteFolder
  <2>3. s \in IF delete THEN Deleting ELSE Putting
    BY StartsIs DEF DavInv
  <2>4. Deleting \intersect Putting = {}
    BY DEF Deleting, Putting
  <2> HIDE DEF s, delete
  <2>5. DavInv'
    BY <2>1, <2>2, <2>3, <2>4, DavMoves
  <2>6. Dav!Phase' = [Dav!Phase EXCEPT ![c] = "begun"] /\ Dav!Phase[c] = "begun"
    BY <2>1, <2>3, <2>5, PhaseGoes, PhasesOf
  <2>7. Dav!Phase' = Dav!Phase
    BY <2>6, PhaseIs
  <2>8. QED
    BY <2>5, <2>7
<1>2. CASE ~(tries[c] > 0)
  <2>1. Dav!GoesTo(c, <<"raised">>)
    BY <1>2 DEF Dav!Again
  <2>2. <<"raised">> \in Standing /\ <<"raised">> \notin Deleting \union Putting
    BY DEF Deleting, Putting, Standing
  <2>3. DavInv'
    BY <2>1, <2>2, DavMoves
  <2>4. Dav!Phase' = [Dav!Phase EXCEPT ![c] = "raised"] /\ Dav!Phase[c] = "begun"
    BY <2>1, <2>3, PhaseGoes, PhasesOf
  <2>5. QED
    BY <2>3, <2>4 DEF Dav!Port!Raise, Dav!Port!Goes
<1>3. QED
  BY <1>1, <1>2

LEMMA LockedKept ==
    ASSUME DavInv, NEW c \in Clients, Dav!Locked(c) \/ Dav!ParentNotVisible(c)
    PROVE  DavInv' /\ (Dav!Port!Raise(c) \/ UNCHANGED <<files, Dav!Phase, call>>)
<1>0. step[c] \in Deleting \union Putting \union Standing
  BY DEF DavInv
<1>1. step[c] \in Deleting \union Putting /\ UNCHANGED <<files, folders, call, putFirst>>
  BY <1>0, Places DEF Dav!Locked, Dav!ParentNotVisible
<1>2. CASE Dav!Again(c)
  BY <1>1, <1>2, AgainKept
<1>3. CASE step[c] = <<"send", "first">> /\ Dav!GoesTo(c, <<"make", 1>>)
  <2>1. <<"make", 1>> \in Putting /\ <<"make", 1>> \notin Deleting /\ step[c] \in Putting
    BY <1>3, DepthAssumption DEF Putting, Deleting
  <2>2. DavInv'
    BY <1>1, <1>3, <2>1, DavMoves DEF DavInv
  <2>3. Dav!Phase' = [Dav!Phase EXCEPT ![c] = "begun"] /\ Dav!Phase[c] = "begun"
    BY <1>1, <1>3, <2>1, <2>2, PhaseGoes, PhasesOf
  <2>4. Dav!Phase' = Dav!Phase
    BY <2>3, PhaseIs
  <2>5. QED
    BY <1>1, <2>2, <2>4
<1>4. QED
  BY <1>2, <1>3 DEF Dav!Locked, Dav!ParentNotVisible, Dav!At

LEMMA MakeFolderKept ==
    ASSUME DavInv, NEW c \in Clients, NEW n \in 1..Depth, Dav!MakeFolder(c, n)
    PROVE  DavInv' /\ UNCHANGED <<files, Dav!Phase, call>>
<1> DEFINE s == Dav!After(n)
<1>1. /\ step[c] = <<"make", n>> /\ Dav!GoesTo(c, s) /\ UNCHANGED <<files, call, putFirst>>
      /\ folders' = IF folders > n THEN folders ELSE n
  BY DEF Dav!MakeFolder, Dav!At
<1>2. step[c] \in Putting /\ s \in Putting
  BY <1>1, DepthAssumption DEF Putting, Dav!After
<1>3. Deleting \intersect Putting = {}
  BY DEF Deleting, Putting
<1> HIDE DEF s
<1>4. folders' \in 0..Depth /\ (folders' < Depth => folders < Depth)
  BY <1>1, DepthAssumption DEF DavInv
<1>5. step' = [step EXCEPT ![c] = s]
  BY <1>1 DEF Dav!GoesTo
<1>6. DavInv'
  BY <1>1, <1>2, <1>3, <1>4, <1>5 DEF DavInv
<1>7. Dav!Phase' = [Dav!Phase EXCEPT ![c] = "begun"] /\ Dav!Phase[c] = "begun"
  BY <1>1, <1>2, <1>6, PhaseGoes, PhasesOf
<1>8. Dav!Phase' = Dav!Phase
  BY <1>7, PhaseIs
<1>9. QED
  BY <1>1, <1>6, <1>8

(* A PUT takes effect, or is refused.                                      *)
LEMMA PlaceKept ==
    ASSUME DavInv, NEW c \in Clients, Dav!Place(c)
    PROVE  DavInv' /\ Dav!Port!TakeEffect(c)
<1>1. /\ step[c][1] = "send" /\ folders = Depth
      /\ call[c].op = "create" => files[call[c].key] = Absent
      /\ files' = [files EXCEPT ![call[c].key] = call[c].value]
      /\ Dav!GoesTo(c, <<"placed">>)
      /\ UNCHANGED <<folders, call, putFirst>>
  BY DEF Dav!Place
<1>2. step[c] \in Putting
  BY <1>1, Places DEF DavInv
<1>3. call[c] \in Dav!Puts
  BY <1>2 DEF DavInv
<1>4. call[c].op \in {"create", "replace"} /\ call[c].key \in FolderKeys /\ call[c].value \in Values
  BY <1>3 DEF Dav!Puts
<1>5. <<"placed">> \in Standing /\ <<"placed">> \notin Deleting \union Putting
  BY DEF Deleting, Putting, Standing
<1>6. step' = [step EXCEPT ![c] = <<"placed">>]
  BY <1>1 DEF Dav!GoesTo
<1>7. DavInv'
  BY <1>1, <1>4, <1>5, <1>6, DepthAssumption DEF DavInv
<1>8. Dav!Phase' = [Dav!Phase EXCEPT ![c] = "effective"] /\ Dav!Phase[c] = "begun"
  BY <1>1, <1>2, <1>7, PhaseGoes, PhasesOf
<1>9. QED
  BY <1>1, <1>4, <1>7, <1>8 DEF Dav!Port!TakeEffect, Dav!Port!Goes

LEMMA ExistsKept ==
    ASSUME DavInv, NEW c \in Clients, Dav!Exists(c)
    PROVE  DavInv' /\ Dav!Port!Refuse(c)
<1>1. /\ step[c][1] = "send" /\ call[c].op = "create" /\ files[call[c].key] # Absent
      /\ Dav!GoesTo(c, <<"refused">>) /\ UNCHANGED <<files, folders, call, putFirst>>
  BY DEF Dav!Exists
<1>2. step[c] \in Putting
  BY <1>1, Places DEF DavInv
<1>3. <<"refused">> \in Standing /\ <<"refused">> \notin Deleting \union Putting
  BY DEF Deleting, Putting, Standing
<1>4. DavInv'
  BY <1>1, <1>3, DavMoves
<1>5. Dav!Phase' = [Dav!Phase EXCEPT ![c] = "refused"] /\ Dav!Phase[c] = "begun"
  BY <1>1, <1>2, <1>4, PhaseGoes, PhasesOf
<1>6. QED
  BY <1>1, <1>4, <1>5 DEF Dav!Port!Refuse, Dav!Port!Goes

(* The folder is deleted, or was not there: then it held no file.          *)
LEMMA DeleteKept ==
    ASSUME DavInv, NEW c \in Clients, Dav!Find(c) \/ Dav!Remove(c)
    PROVE  DavInv' /\ (Dav!Port!TakeEffect(c) \/ UNCHANGED <<files, Dav!Phase, call>>)
<1>1. step[c] \in Deleting /\ UNCHANGED <<call, putFirst>>
  BY DEF Dav!Find, Dav!Remove, Dav!At, Deleting
<1>2. call[c] = Dav!DeleteFolder /\ call[c].op = "delete"
  BY <1>1 DEF DavInv, Dav!DeleteFolder
<1>3. <<"remove">> \in Deleting /\ <<"remove">> \notin Putting
      /\ <<"placed">> \in Standing /\ <<"placed">> \notin Deleting \union Putting
  BY DEF Deleting, Putting, Standing
<1>4. CASE Dav!Find(c) /\ folders = Depth
  <2>1. Dav!GoesTo(c, <<"remove">>) /\ UNCHANGED <<files, folders>>
    BY <1>4 DEF Dav!Find
  <2>2. DavInv'
    BY <1>1, <1>2, <1>3, <2>1, DavMoves
  <2>3. Dav!Phase' = [Dav!Phase EXCEPT ![c] = "begun"] /\ Dav!Phase[c] = "begun"
    BY <1>1, <1>3, <2>1, <2>2, PhaseGoes, PhasesOf
  <2>4. Dav!Phase' = Dav!Phase
    BY <2>3, PhaseIs
  <2>5. QED
    BY <1>1, <2>1, <2>2, <2>4
<1>5. CASE (Dav!Find(c) /\ folders # Depth) \/ Dav!Remove(c)
  <2>1. Dav!GoesTo(c, <<"placed">>)
    BY <1>5 DEF Dav!Find, Dav!Remove
  <2>2. files' = [k \in FolderKeys |-> Absent]
    <3>1. CASE Dav!Remove(c)
      BY <3>1 DEF Dav!Remove
    <3>2. CASE Dav!Find(c) /\ folders # Depth
      <4>1. folders < Depth /\ UNCHANGED files
        BY <3>2, DepthAssumption DEF Dav!Find, DavInv
      <4>2. \A k \in FolderKeys : files'[k] = Absent
        BY <4>1 DEF DavInv
      <4>3. files' \in [FolderKeys -> Values \union {Absent}]
        BY <4>1 DEF DavInv
      <4>4. QED
        BY <4>2, <4>3
    <3>3. QED
      BY <1>5, <3>1, <3>2
  <2>3. folders' \in 0..Depth
    BY <1>5, DepthAssumption DEF Dav!Find, Dav!Remove, DavInv
  <2>4. step' = [step EXCEPT ![c] = <<"placed">>]
    BY <2>1 DEF Dav!GoesTo
  <2>5. DavInv'
    BY <1>1, <1>3, <2>2, <2>3, <2>4 DEF DavInv
  <2>6. Dav!Phase' = [Dav!Phase EXCEPT ![c] = "effective"] /\ Dav!Phase[c] = "begun"
    BY <1>1, <2>1, <2>5, PhaseGoes, PhasesOf
  <2>7. QED
    BY <1>1, <1>2, <2>2, <2>5, <2>6 DEF Dav!Port!TakeEffect, Dav!Port!Goes
<1>6. QED
  BY <1>4, <1>5

(* The answer comes or is lost, and the caller takes it.                   *)
LEMMA EndKept ==
    ASSUME DavInv, NEW c \in Clients, Dav!Answered(c) \/ Dav!Lost(c) \/ Dav!Taken(c)
    PROVE  DavInv' /\ (Dav!Port!Return(c) \/ Dav!Port!Raise(c) \/ Dav!Port!Take(c))
<1>0. step[c] \in Deleting \union Putting \union Standing /\ UNCHANGED <<files, folders, call, putFirst>>
  BY DEF DavInv, Dav!Answered, Dav!Lost, Dav!Taken
<1>1. \A s \in Standing : s \notin Deleting /\ s \notin Putting
  BY DEF Deleting, Putting, Standing
<1>2. CASE Dav!Answered(c)
  <2>1. step[c] = <<"placed">> /\ Dav!GoesTo(c, <<"ok">>) /\ <<"ok">> \in Standing
    BY <1>2 DEF Dav!Answered, Dav!At, Standing
  <2>2. DavInv'
    BY <1>0, <1>1, <2>1, DavMoves
  <2>3. Dav!Phase' = [Dav!Phase EXCEPT ![c] = "ok"] /\ Dav!Phase[c] = "effective"
    BY <2>1, <2>2, PhaseGoes, PhasesOf
  <2>4. QED
    BY <1>0, <2>2, <2>3 DEF Dav!Port!Return, Dav!Port!Goes
<1>3. CASE Dav!Lost(c)
  <2>1. /\ step[c] \in Deleting \union Putting \union {<<"placed">>}
        /\ Dav!GoesTo(c, <<"raised">>) /\ <<"raised">> \in Standing
    BY <1>0, <1>3, Places DEF Dav!Lost, Standing
  <2>2. DavInv'
    BY <1>0, <1>1, <2>1, DavMoves
  <2>3. /\ Dav!Phase' = [Dav!Phase EXCEPT ![c] = "raised"]
        /\ Dav!Phase[c] \in {"begun", "effective"}
    BY <2>1, <2>2, PhaseGoes, PhasesOf
  <2>4. QED
    BY <1>0, <2>2, <2>3 DEF Dav!Port!Raise, Dav!Port!Goes
<1>4. CASE Dav!Taken(c)
  <2>1. step[c][1] \in {"ok", "refused", "raised"} /\ Dav!GoesTo(c, <<"idle">>) /\ <<"idle">> \in Standing
    BY <1>4 DEF Dav!Taken, Standing
  <2>2. DavInv'
    BY <1>0, <1>1, <2>1, DavMoves
  <2>3. step[c] \in {<<"ok">>, <<"refused">>, <<"raised">>}
    BY <1>0, <2>1 DEF Deleting, Putting, Standing
  <2>4. /\ Dav!Phase' = [Dav!Phase EXCEPT ![c] = "idle"]
        /\ Dav!Phase[c] \in {"ok", "refused", "raised"}
    BY <2>1, <2>2, <2>3, PhaseGoes, PhasesOf
  <2>5. QED
    BY <1>0, <2>2, <2>4 DEF Dav!Port!Take, Dav!Port!Goes
<1>5. QED
  BY <1>2, <1>3, <1>4

LEMMA DavStep ==
    DavInv /\ Dav!DavNext => DavInv' /\ (Dav!Port!Next \/ UNCHANGED <<files, Dav!Phase, call>>)
<1> SUFFICES ASSUME DavInv, NEW c \in Clients,
                    \/ Dav!Begin(c) \/ Dav!Locked(c) \/ Dav!ParentNotVisible(c) \/ Dav!Place(c)
                    \/ Dav!Exists(c) \/ Dav!Find(c) \/ Dav!Remove(c)
                    \/ \E n \in 1..Depth : Dav!MakeFolder(c, n)
                    \/ Dav!Answered(c) \/ Dav!Lost(c) \/ Dav!Taken(c)
             PROVE  DavInv' /\ (Dav!Port!Next \/ UNCHANGED <<files, Dav!Phase, call>>)
  BY DEF Dav!DavNext
<1>1. QED
  BY BeginKept, LockedKept, PlaceKept, ExistsKept, DeleteKept, MakeFolderKept, EndKept
  DEF Dav!Port!Next

(***************************************************************************)
(* The WebDAV adapter is an object store like any other: whatever is late, *)
(* locked or lost, a call takes effect at one moment and once, and no      *)
(* create is refused because of its own file (_retrying and the calls of   *)
(* webdav.py).  Every step is a step of ObjectStore or none.               *)
(***************************************************************************)
THEOREM DavIsAnObjectStore == AroundSpec => DavImplementsPort
<1>1. AroundInit => DavInv /\ Dav!Port!Init
  <2> SUFFICES ASSUME AroundInit PROVE DavInv /\ Dav!Port!Init
    OBVIOUS
  <2>1. DavInv /\ Dav!DavInit
    BY DavStarts DEF AroundInit
  <2>2. Dav!Phase = [c \in Clients |-> "idle"]
    <3>1. Dav!Phase = [c \in Clients |-> PhaseOf(step[c])]
      BY <2>1, PhaseIs
    <3>2. \A c \in Clients : PhaseOf(step[c]) = "idle"
      BY <2>1, PhasesOf DEF Dav!DavInit
    <3>3. QED
      BY <3>1, <3>2
  <2>3. call \in [Clients -> Dav!Port!Calls]
    BY <2>1, OpOf DEF DavInv
  <2>4. QED
    BY <2>1, <2>2, <2>3 DEF DavInv, Dav!Port!Init
<1>2. DavInv /\ [AroundNext]_aroundVars
         => DavInv' /\ (Dav!Port!Next \/ UNCHANGED <<files, Dav!Phase, call>>)
  <2> SUFFICES ASSUME DavInv, [AroundNext]_aroundVars
               PROVE  DavInv' /\ (Dav!Port!Next \/ UNCHANGED <<files, Dav!Phase, call>>)
    OBVIOUS
  <2>1. Dav!DavNext \/ UNCHANGED davVars
    BY DEF AroundNext, aroundVars, OfTexts
  <2>2. CASE UNCHANGED davVars
    BY <2>2 DEF davVars, DavInv, Dav!Phase
  <2>3. QED
    BY <2>1, <2>2, DavStep
<1>3. DavInv /\ [AroundNext]_aroundVars => [Dav!Port!Next]_(Dav!Port!vars)
  BY <1>2 DEF Dav!Port!vars
<1>4. QED
  BY <1>1, <1>2, <1>3, PTL DEF AroundSpec, DavImplementsPort, Dav!DavImplementsPort, Dav!Port!Spec

-----------------------------------------------------------------------------
(***************************************************************************)
(* The page texts.  What is recorded is what `parse' gives, which is of    *)
(* the file or nothing.                                                    *)
(***************************************************************************)
TextInv == text \in [Hashes -> {"none", "its own"}]

LEMMA TextStep == TextInv /\ PageText!DerivedNext => TextInv'
<1> SUFFICES ASSUME TextInv, PageText!DerivedNext PROVE TextInv'
  OBVIOUS
<1>1. ASSUME NEW p, PageText!ReadOne(p) PROVE TextInv'
  <2> DEFINE j == proc[p]
             w == PageText!Parse(j.article, Head(j.files))
  <2>1. text' = text \/ PageText!Record(Head(j.files), w)
    BY <1>1 DEF PageText!ReadOne
  <2>2. w \in {"none", "its own"}
    BY DEF PageText!Parse
  <2> HIDE DEF w
  <2>3. QED
    BY <2>1, <2>2 DEF PageText!Record, TextInv
<1>2. ASSUME NEW p, PageText!Rebuilt(p) PROVE TextInv'
  BY <1>2 DEF PageText!Rebuilt, TextInv
<1>3. ASSUME NEW p, \/ PageText!FillNext(p) \/ PageText!EnqueueMissing(p) \/ PageText!FillMissing(p)
                    \/ PageText!Crash(p)
      PROVE  TextInv'
  BY <1>3
  DEF PageText!FillNext, PageText!EnqueueMissing, PageText!FillMissing, PageText!Crash, TextInv
<1>4. ASSUME NEW a, \/ PageText!ExtractMediaText(a) \/ (\E kept \in Edits : PageText!Commit(a, kept))
                    \/ (\E h \in Hashes : PageText!Alter(a, h))
      PROVE  TextInv'
  BY <1>4 DEF PageText!ExtractMediaText, PageText!Commit, PageText!Alter, TextInv
<1>5. ASSUME \/ PageText!Refresh \/ PageText!EnqueueDerived \/ PageText!Reconcile \/ PageText!RebuildIndex
      PROVE  TextInv'
  BY <1>5
  DEF PageText!Refresh, PageText!EnqueueDerived, PageText!Reconcile, PageText!RebuildIndex,
      PageText!StartRebuild, TextInv
<1>6. QED
  BY <1>1, <1>2, <1>3, <1>4, <1>5 DEF PageText!DerivedNext, PageText!Step

(***************************************************************************)
(* Whatever becomes of the bytes on disk, of saves, jobs and rebuilds: a   *)
(* text found by its hash is never another file's (extract_media_text and  *)
(* store_media_text).                                                      *)
(***************************************************************************)
THEOREM TextOfItsFileHolds == AroundSpec => []TextOfItsFile
<1>1. AroundInit => TextInv
  BY DEF AroundInit, PageText!DerivedInit, TextInv
<1>2. TextInv /\ [AroundNext]_aroundVars => TextInv'
  <2> SUFFICES ASSUME TextInv, [AroundNext]_aroundVars PROVE TextInv'
    OBVIOUS
  <2>1. PageText!DerivedNext \/ UNCHANGED textVars
    BY DEF AroundNext, aroundVars, OfTexts
  <2>2. QED
    BY <2>1, TextStep DEF textVars, TextInv
<1>3. TextInv => TextOfItsFile
  BY DEF TextInv, TextOfItsFile, PageText!TextOfItsFile
<1>4. QED
  BY <1>1, <1>2, <1>3, PTL DEF AroundSpec

-----------------------------------------------------------------------------
(***************************************************************************)
(* The fixity check.  A folder that nobody wrote since the check began     *)
(* still holds what the check listed, and what the check noted of it is    *)
(* what it holds; a file that was damaged all along is listed, and noted   *)
(* as damaged wherever the check has looked.                               *)
(***************************************************************************)
HistoryKeys == {Checks!HistoryKey(n) : n \in Nat}
VersionKeys == {Checks!Readme} \union HistoryKeys
MediaKeys == {Checks!MediaKey(n) : n \in Names}
KeysOfAll == VersionKeys \union MediaKeys
Versions == [version : Nat, names : SUBSET Names]
Unsound == {Garbage, NoRead}

FolderOK(held) ==
    /\ DOMAIN held \subseteq KeysOfAll
    /\ \A k \in DOMAIN held \intersect VersionKeys : held[k] \in Versions \union Unsound
    /\ \A n \in Names : Checks!MediaKey(n) \in DOMAIN held => held[Checks!MediaKey(n)] \in {n} \union Unsound

WriterOK(w) == w # Nobody => w.folder \in Checks!Folders /\ w.states \in Versions

(* What the check noted of a folder that holds this.                       *)
Seen(f, held, j) ==
    /\ \A k : <<f, k>> \in j.stored <=> k \in DOMAIN held
    /\ \A k : <<f, k>> \in j.reading \union j.versions => k \in DOMAIN held /\ Checks!Readme \in DOMAIN held
    /\ Checks!Readme \in DOMAIN held =>
          f \in j.todo \/ \A k \in DOMAIN held \intersect VersionKeys : <<f, k>> \in j.reading \union j.versions
    /\ \A k : <<f, k>> \in j.unreadable <=> <<f, k>> \in j.versions /\ held[k] \in Unsound
    /\ \A n \in Names :
          <<f, Checks!MediaKey(n)>> \in j.named <=>
              \E k : <<f, k>> \in j.versions /\ held[k] \notin Unsound /\ n \in held[k].names
    /\ \A k : <<f, k>> \in DOMAIN j.hashes => j.hashes[<<f, k>>] = held[k]
    /\ j.pc = "hash" =>
          \A k : <<f, k>> \in j.named \intersect j.stored => <<f, k>> \in j.hashing \union DOMAIN j.hashes

(* What it noted of a file damaged all along.                              *)
RottenSeen(c, j) ==
    /\ c \in j.stored
    /\ c \in j.versions => c \in j.unreadable
    /\ c \in DOMAIN j.hashes => j.hashes[c] = Garbage
    /\ j.pc = "hash" /\ c \in j.named => c \in j.hashing \union DOMAIN j.hashes

StillRotten(c) == c[2] \in DOMAIN tree[c[1]] /\ tree[c[1]][c[2]] = Garbage

CheckFields ==
    {"pc", "stored", "todo", "reading", "versions", "unreadable", "named", "hashing", "hashes",
     "touched", "rotten"}

CheckOK(j) ==
    /\ DOMAIN j = CheckFields
    /\ j.stored \subseteq Checks!Folders \X KeysOfAll
    /\ j.todo = {f \in j.todo : <<f, Checks!Readme>> \in j.stored}
    /\ j.reading \subseteq Checks!Folders \X VersionKeys
    /\ j.versions \subseteq Checks!Folders \X VersionKeys
    /\ j.unreadable \subseteq Checks!Folders \X VersionKeys
    /\ j.named \subseteq Checks!Folders \X MediaKeys
    /\ j.hashing \union DOMAIN j.hashes \subseteq j.named \intersect j.stored
    /\ j.pc = "records" => j.hashing = {} /\ DOMAIN j.hashes = {}
    /\ j.pc = "hash" => j.todo = {} /\ j.reading = {}
    /\ \A c \in j.rotten : RottenSeen(c, j)

FixityInv ==
    /\ DOMAIN tree = Checks!Folders
    /\ \A f \in Checks!Folders : FolderOK(tree[f])
    /\ WriterOK(writer)
    /\ check.pc \in {"none", "records", "hash", "done"}
    /\ check.pc \in {"records", "hash"} =>
          /\ CheckOK(check)
          /\ \A f \in Checks!Folders \ check.touched : Seen(f, tree[f], check)
          /\ \A c \in check.rotten : StillRotten(c)
    /\ check.pc = "done" =>
          /\ DOMAIN check = {"pc", "report", "touched", "rotten"}
          /\ FindingsExact

LEMMA KeysAreApart ==
    /\ \A k \in KeysOfAll : Checks!IsHistoryKey(k) <=> k \in HistoryKeys
    /\ \A k \in MediaKeys : k \notin VersionKeys
    /\ \A n : Checks!MediaKey(n)[2] = n
    /\ Checks!Readme \notin HistoryKeys
BY DEF KeysOfAll, VersionKeys, HistoryKeys, MediaKeys, Checks!IsHistoryKey, Checks!HistoryKey,
       Checks!MediaKey, Checks!Readme

(* What Faults says of a folder hangs on what that folder holds alone.     *)
VersionsIn(f, held) ==
    IF Checks!Readme \in DOMAIN held
    THEN {c \in {f} \X DOMAIN held : c[2] = Checks!Readme \/ Checks!IsHistoryKey(c[2])} ELSE {}

NamedIn(f, held) ==
    UNION {IF held[c[2]] \in Unsound THEN {} ELSE {<<f, Checks!MediaKey(n)>> : n \in held[c[2]].names} :
           c \in VersionsIn(f, held)}

FaultsIn(f, held) ==
    LET kept == {f} \X DOMAIN held
        intact == VersionsIn(f, held)
        listed == NamedIn(f, held) IN
    [unreadable_readmes |-> {c \in intact : held[c[2]] \in Unsound},
     unreadable_files |-> {c \in listed \intersect kept : held[c[2]] = NoRead},
     altered |-> {c \in listed \intersect kept : held[c[2]] = Garbage},
     missing |-> listed \ kept,
     unreferenced |-> kept \ (intact \union listed)]

LEMMA FaultsIs == ASSUME NEW f PROVE Checks!Faults(f) = FaultsIn(f, tree[f])
<1> DEFINE held == tree[f]
           kept == {f} \X DOMAIN held
           intact == VersionsIn(f, held)
           listed == NamedIn(f, held)
<1>1. \A c \in kept : c[1] = f /\ c[2] \in DOMAIN held
  OBVIOUS
<1>2. Checks!Stored(<<f, Checks!Readme>>) <=> Checks!Readme \in DOMAIN held
  BY DEF Checks!Stored
<1>3. (IF Checks!Stored(<<f, Checks!Readme>>)
       THEN {c \in kept : c[2] = Checks!Readme \/ Checks!IsHistoryKey(c[2])} ELSE {}) = intact
  BY <1>2 DEF VersionsIn
<1>4. intact \subseteq kept
  BY DEF VersionsIn
<1>5. \A c \in intact : Checks!NamedBy(c) =
          IF held[c[2]] \in Unsound THEN {} ELSE {<<f, Checks!MediaKey(n)>> : n \in held[c[2]].names}
  <2> TAKE c \in intact
  <2>1. c[1] = f /\ c[2] \in DOMAIN held
    BY <1>1, <1>4
  <2> HIDE DEF intact
  <2>2. QED
    BY <2>1 DEF Checks!NamedBy, Checks!Decodes, Checks!Stored, Checks!Bytes, Unsound
<1>6. UNION {Checks!NamedBy(c) : c \in intact} = listed
  BY <1>5 DEF NamedIn
<1> HIDE DEF kept, intact, listed
<1>7. {c \in intact : ~Checks!Decodes(c)} = {c \in intact : held[c[2]] \in Unsound}
  BY <1>1, <1>4 DEF Checks!Decodes, Checks!Stored, Checks!Bytes, Unsound
<1>8. {c \in listed \intersect kept : Checks!Bytes(c) = NoRead}
          = {c \in listed \intersect kept : held[c[2]] = NoRead}
  BY <1>1 DEF Checks!Bytes
<1>9. {c \in listed \intersect kept : Checks!Bytes(c) = Garbage}
          = {c \in listed \intersect kept : held[c[2]] = Garbage}
  BY <1>1 DEF Checks!Bytes
<1>10. Checks!Faults(f) =
          [unreadable_readmes |-> {c \in intact : ~Checks!Decodes(c)},
           unreadable_files |-> {c \in listed \intersect kept : Checks!Bytes(c) = NoRead},
           altered |-> {c \in listed \intersect kept : Checks!Bytes(c) = Garbage},
           missing |-> listed \ kept,
           unreferenced |-> kept \ (intact \union listed)]
  BY <1>3, <1>6, Zenon DEF Checks!Faults, kept, held
<1>11. QED
  BY <1>7, <1>8, <1>9, <1>10 DEF FaultsIn, held, kept, intact, listed

LEMMA FaultsIsNext == ASSUME NEW f PROVE (Checks!Faults(f))' = FaultsIn(f, tree'[f])
<1> DEFINE held == tree'[f]
           kept == {f} \X DOMAIN held
           intact == VersionsIn(f, held)
           listed == NamedIn(f, held)
<1>1. \A c \in kept : c[1] = f /\ c[2] \in DOMAIN held
  OBVIOUS
<1>2. (Checks!Stored(<<f, Checks!Readme>>))' <=> Checks!Readme \in DOMAIN held
  BY DEF Checks!Stored
<1>3. (IF (Checks!Stored(<<f, Checks!Readme>>))'
       THEN {c \in kept : c[2] = Checks!Readme \/ Checks!IsHistoryKey(c[2])} ELSE {}) = intact
  BY <1>2 DEF VersionsIn
<1>4. intact \subseteq kept
  BY DEF VersionsIn
<1>5. \A c \in intact : (Checks!NamedBy(c))' =
          IF held[c[2]] \in Unsound THEN {} ELSE {<<f, Checks!MediaKey(n)>> : n \in held[c[2]].names}
  <2> TAKE c \in intact
  <2>1. c[1] = f /\ c[2] \in DOMAIN held
    BY <1>1, <1>4
  <2> HIDE DEF intact
  <2>2. QED
    BY <2>1 DEF Checks!NamedBy, Checks!Decodes, Checks!Stored, Checks!Bytes, Unsound
<1>6. UNION {(Checks!NamedBy(c))' : c \in intact} = listed
  BY <1>5 DEF NamedIn
<1> HIDE DEF kept, intact, listed
<1>7. {c \in intact : ~(Checks!Decodes(c))'} = {c \in intact : held[c[2]] \in Unsound}
  BY <1>1, <1>4 DEF Checks!Decodes, Checks!Stored, Checks!Bytes, Unsound
<1>8. {c \in listed \intersect kept : (Checks!Bytes(c))' = NoRead}
          = {c \in listed \intersect kept : held[c[2]] = NoRead}
  BY <1>1 DEF Checks!Bytes
<1>9. {c \in listed \intersect kept : (Checks!Bytes(c))' = Garbage}
          = {c \in listed \intersect kept : held[c[2]] = Garbage}
  BY <1>1 DEF Checks!Bytes
<1>10. (Checks!Faults(f))' =
          [unreadable_readmes |-> {c \in intact : ~(Checks!Decodes(c))'},
           unreadable_files |-> {c \in listed \intersect kept : (Checks!Bytes(c))' = NoRead},
           altered |-> {c \in listed \intersect kept : (Checks!Bytes(c))' = Garbage},
           missing |-> listed \ kept,
           unreferenced |-> kept \ (intact \union listed)]
  BY <1>3, <1>6, Zenon DEF Checks!Faults, kept, held
<1>11. QED
  BY <1>7, <1>8, <1>9, <1>10 DEF FaultsIn, held, kept, intact, listed


LEMMA FaultsStay ==
    ASSUME NEW f, tree'[f] = tree[f]
    PROVE  Checks!Faults(f)' = Checks!Faults(f)
BY FaultsIs, FaultsIsNext

LEMMA FixityStarts == Checks!FixityInit => FixityInv
BY DEF FixityInv, Checks!FixityInit, FolderOK, WriterOK, Checks!Empty

(* A folder with one key more, one key less, or none.                      *)
LEMMA WithIs ==
    ASSUME NEW held, FolderOK(held), NEW k \in KeysOfAll, NEW v,
           v \in Unsound \/ (k \in VersionKeys /\ v \in Versions)
             \/ (\E n \in Names : k = Checks!MediaKey(n) /\ v = n)
    PROVE  FolderOK(Checks!With(held, k, v))
<1> DEFINE new == Checks!With(held, k, v)
<1>1. /\ DOMAIN new = DOMAIN held \union {k} /\ new[k] = v
      /\ \A o \in DOMAIN held : o # k => new[o] = held[o]
  BY DEF Checks!With
<1> HIDE DEF new
<1>2. \A o \in DOMAIN new \intersect VersionKeys : new[o] \in Versions \union Unsound
  BY <1>1, KeysAreApart DEF FolderOK, MediaKeys
<1>3. \A n \in Names : Checks!MediaKey(n) \in DOMAIN new => new[Checks!MediaKey(n)] \in {n} \union Unsound
  <2> SUFFICES ASSUME NEW n \in Names, Checks!MediaKey(n) \in DOMAIN new
               PROVE  new[Checks!MediaKey(n)] \in {n} \union Unsound
    OBVIOUS
  <2>1. CASE Checks!MediaKey(n) # k
    BY <1>1, <2>1 DEF FolderOK
  <2>2. CASE Checks!MediaKey(n) = k
    <3>1. k \notin VersionKeys
      BY <2>2, KeysAreApart DEF MediaKeys
    <3>2. \A m \in Names : k = Checks!MediaKey(m) => m = n
      BY <2>2, KeysAreApart
    <3>3. QED
      BY <1>1, <2>2, <3>1, <3>2
  <2>3. QED
    BY <2>1, <2>2
<1>4. QED
  BY <1>1, <1>2, <1>3 DEF FolderOK, new

LEMMA LackingIs ==
    ASSUME NEW held, FolderOK(held), NEW k
    PROVE  FolderOK(Checks!Lacking(held, k))
BY DEF FolderOK, Checks!Lacking, Checks!Restrict

LEMMA EmptyIs == FolderOK(Checks!Empty)
BY DEF FolderOK, Checks!Empty

(* What Becomes leaves of a check.                                         *)
LEMMA BecomesIs ==
    ASSUME FixityInv, NEW f \in Checks!Folders, NEW held, Checks!Becomes(f, held)
    PROVE  /\ DOMAIN tree' = Checks!Folders /\ tree'[f] = held
           /\ \A g \in Checks!Folders : g # f => tree'[g] = tree[g]
           /\ check.pc = "none" => check' = check
           /\ check.pc # "none" =>
                 /\ DOMAIN check' = DOMAIN check
                 /\ \A x \in DOMAIN check : x \notin {"touched", "rotten"} => check'[x] = check[x]
                 /\ check'.touched = check.touched \union {f}
                 /\ check'.rotten = {c \in check.rotten : c[1] = f =>
                                        c[2] \in DOMAIN held /\ held[c[2]] = Garbage}
<1>1. tree' = [tree EXCEPT ![f] = held] /\ DOMAIN tree = Checks!Folders
  BY DEF Checks!Becomes, FixityInv
<1>2. check.pc # "none" => {"touched", "rotten"} \subseteq DOMAIN check
  BY DEF FixityInv, CheckOK, CheckFields
<1>3. check.pc # "none" =>
          check' = [check EXCEPT !.touched = @ \union {f},
                                 !.rotten = {c \in @ : c[1] = f => c[2] \in DOMAIN held /\ held[c[2]] = Garbage}]
  BY DEF Checks!Becomes
<1>4. check.pc = "none" => check' = check
  BY DEF Checks!Becomes
<1>5. QED
  BY <1>1, <1>2, <1>3, <1>4

(* The check has not looked, as far as its folder stays.                   *)
LEMMA CheckOKKept ==
    ASSUME NEW j, NEW i, CheckOK(j), DOMAIN i = DOMAIN j,
           \A x \in DOMAIN j : x \notin {"touched", "rotten"} => i[x] = j[x],
           i.rotten \subseteq j.rotten
    PROVE  CheckOK(i)
<1>1. /\ i.pc = j.pc /\ i.stored = j.stored /\ i.todo = j.todo /\ i.reading = j.reading
      /\ i.versions = j.versions /\ i.unreadable = j.unreadable /\ i.named = j.named
      /\ i.hashing = j.hashing /\ i.hashes = j.hashes
  BY DEF CheckOK, CheckFields
<1>2. \A c \in i.rotten : RottenSeen(c, i)
  BY <1>1 DEF CheckOK, RottenSeen
<1>3. QED
  BY <1>1, <1>2 DEF CheckOK

LEMMA SeenKept ==
    ASSUME NEW j, NEW i, CheckOK(j), DOMAIN i = DOMAIN j,
           \A x \in DOMAIN j : x \notin {"touched", "rotten"} => i[x] = j[x],
           NEW f, NEW held, Seen(f, held, j)
    PROVE  Seen(f, held, i)
<1>1. /\ i.pc = j.pc /\ i.stored = j.stored /\ i.todo = j.todo /\ i.reading = j.reading
      /\ i.versions = j.versions /\ i.unreadable = j.unreadable /\ i.named = j.named
      /\ i.hashing = j.hashing /\ i.hashes = j.hashes
  BY DEF CheckOK, CheckFields
<1>2. QED
  BY <1>1 DEF Seen

LEMMA BecomesKept ==
    ASSUME FixityInv, NEW f \in Checks!Folders, NEW held, Checks!Becomes(f, held),
           FolderOK(held), WriterOK(writer')
    PROVE  FixityInv'
<1>1. /\ DOMAIN tree' = Checks!Folders /\ tree'[f] = held
      /\ \A g \in Checks!Folders : g # f => tree'[g] = tree[g]
      /\ check.pc = "none" => check' = check
      /\ check.pc # "none" =>
            /\ DOMAIN check' = DOMAIN check
            /\ \A x \in DOMAIN check : x \notin {"touched", "rotten"} => check'[x] = check[x]
            /\ check'.touched = check.touched \union {f}
            /\ check'.rotten = {c \in check.rotten : c[1] = f =>
                                   c[2] \in DOMAIN held /\ held[c[2]] = Garbage}
  BY BecomesIs
<1>2. \A g \in Checks!Folders : FolderOK(tree'[g])
  BY <1>1 DEF FixityInv
<1>3. check'.pc = check.pc
  BY <1>1 DEF FixityInv, CheckOK, CheckFields
<1>4. ASSUME check.pc \in {"records", "hash"}
      PROVE  /\ CheckOK(check')
             /\ \A g \in Checks!Folders \ check'.touched : Seen(g, tree'[g], check')
             /\ \A c \in check'.rotten : StillRotten(c)'
  <2>1. /\ CheckOK(check) /\ \A c \in check.rotten : StillRotten(c)
        /\ \A g \in Checks!Folders \ check.touched : Seen(g, tree[g], check)
    BY <1>4 DEF FixityInv
  <2>2. CheckOK(check')
    BY <1>1, <1>4, <2>1, CheckOKKept
  <2>3. ASSUME NEW g \in Checks!Folders \ check'.touched PROVE Seen(g, tree'[g], check')
    <3>1. g # f /\ g \notin check.touched
      BY <1>1, <1>4
    <3>2. Seen(g, tree[g], check) /\ tree'[g] = tree[g]
      BY <1>1, <2>1, <3>1
    <3>3. QED
      BY <1>1, <1>4, <2>1, <3>2, SeenKept
  <2>4. ASSUME NEW c \in check'.rotten PROVE StillRotten(c)'
    <3>1. c \in check.rotten /\ (c[1] = f => c[2] \in DOMAIN held /\ held[c[2]] = Garbage)
      BY <1>1, <1>4
    <3>2. StillRotten(c) /\ c[1] \in Checks!Folders
      BY <2>1, <3>1 DEF CheckOK, RottenSeen
    <3>3. QED
      BY <1>1, <3>1, <3>2 DEF StillRotten
  <2>5. QED
    BY <2>2, <2>3, <2>4
<1>5. ASSUME check.pc = "done"
      PROVE  DOMAIN check' = {"pc", "report", "touched", "rotten"} /\ FindingsExact'
  <2>1. DOMAIN check = {"pc", "report", "touched", "rotten"} /\ FindingsExact
    BY <1>5 DEF FixityInv
  <2>2. /\ DOMAIN check' = DOMAIN check /\ check'.report = check.report
        /\ check'.rotten \subseteq check.rotten
        /\ \A g \in Checks!Folders \ check'.touched : g \notin check.touched /\ tree'[g] = tree[g]
    BY <1>1, <1>5, <2>1
  <2>3. \A g \in Checks!Folders \ check'.touched : Checks!Faults(g)' = Checks!Faults(g)
    BY <2>2, FaultsStay
  <2>4. QED
    BY <1>3, <1>5, <2>1, <2>2, <2>3 DEF FindingsExact, Checks!FindingsExact
<1>6. check.pc \in {"none", "records", "hash", "done"}
  BY DEF FixityInv
<1>7. QED
  BY <1>1, <1>2, <1>3, <1>4, <1>5, <1>6 DEF FixityInv

(* Uploads, saves, hard deletes and the disk.                              *)
LEMMA PlaceFileKept ==
    ASSUME FixityInv, NEW f \in CheckedArticles, NEW name \in Names, Checks!Place(f, name)
    PROVE  FixityInv'
<1>1. Checks!Becomes(f, Checks!With(tree[f], Checks!MediaKey(name), name)) /\ UNCHANGED writer
  BY DEF Checks!Place
<1>2. f \in Checks!Folders /\ Checks!MediaKey(name) \in KeysOfAll
  BY DEF Checks!Folders, KeysOfAll, MediaKeys
<1>3. FolderOK(Checks!With(tree[f], Checks!MediaKey(name), name))
  BY <1>2, WithIs DEF FixityInv
<1>4. QED
  BY <1>1, <1>2, <1>3, BecomesKept DEF FixityInv

(* Neither the tree nor the check changes.                                 *)
LEMMA WriterAlone ==
    ASSUME FixityInv, UNCHANGED <<tree, check>>, WriterOK(writer')
    PROVE  FixityInv'
BY DEF FixityInv, StillRotten, FindingsExact, Checks!FindingsExact, Checks!Faults, Checks!Stored,
       Checks!NamedBy, Checks!Decodes, Checks!Bytes

LEMMA BeginSaveKept ==
    ASSUME FixityInv, NEW f \in Checks!Folders, NEW names \in SUBSET Names, Checks!BeginSave(f, names)
    PROVE  FixityInv'
<1> DEFINE readme == <<f, Checks!Readme>>
           version == IF Checks!Stored(readme) THEN Checks!Bytes(readme).version ELSE 0
           kept == Checks!HistoryKey(version)
<1>1. /\ Checks!Stored(readme) => Checks!Decodes(readme)
      /\ version # 0 => Checks!Becomes(f, Checks!With(tree[f], kept, Checks!Bytes(readme)))
      /\ version = 0 => UNCHANGED <<tree, check>>
      /\ writer' = [folder |-> f, states |-> [version |-> version + 1, names |-> names]]
  BY DEF Checks!BeginSave
<1>2. Checks!Readme \in VersionKeys /\ Checks!Stored(readme) <=> Checks!Readme \in DOMAIN tree[f]
  BY DEF Checks!Stored, VersionKeys
<1>3. Checks!Bytes(readme) = tree[f][Checks!Readme]
  BY DEF Checks!Bytes
<1>4. Checks!Stored(readme) => Checks!Bytes(readme) \in Versions
  BY <1>1, <1>2, <1>3 DEF FixityInv, FolderOK, Checks!Decodes, Unsound, VersionKeys
<1>5. version \in Nat /\ (version # 0 => Checks!Bytes(readme) \in Versions)
  BY <1>4 DEF Versions
<1> HIDE DEF version
<1>6. kept \in VersionKeys /\ kept \in KeysOfAll
  BY <1>5 DEF VersionKeys, HistoryKeys, KeysOfAll
<1>7. WriterOK(writer')
  BY <1>1, <1>5 DEF WriterOK, Versions
<1>8. CASE version # 0
  <2>1. FolderOK(Checks!With(tree[f], kept, Checks!Bytes(readme)))
    BY <1>5, <1>6, <1>8, WithIs DEF FixityInv
  <2>2. QED
    BY <1>1, <1>7, <1>8, <2>1, BecomesKept
<1>9. CASE version = 0
  BY <1>1, <1>7, <1>9, WriterAlone
<1>10. QED
  BY <1>8, <1>9

LEMMA CommitKept ==
    ASSUME FixityInv, Checks!Commit
    PROVE  FixityInv'
<1>1. /\ writer # Nobody /\ writer' = Nobody
      /\ Checks!Becomes(writer.folder, Checks!With(tree[writer.folder], Checks!Readme, writer.states))
  BY DEF Checks!Commit
<1>2. writer.folder \in Checks!Folders /\ writer.states \in Versions
  BY <1>1 DEF FixityInv, WriterOK
<1>3. Checks!Readme \in VersionKeys /\ Checks!Readme \in KeysOfAll
  BY DEF VersionKeys, KeysOfAll
<1>4. FolderOK(Checks!With(tree[writer.folder], Checks!Readme, writer.states))
  BY <1>2, <1>3, WithIs DEF FixityInv
<1>5. WriterOK(writer')
  BY <1>1 DEF WriterOK
<1>6. QED
  BY <1>1, <1>2, <1>4, <1>5, BecomesKept

LEMMA CutShortKept ==
    ASSUME FixityInv, Checks!CutShort
    PROVE  FixityInv'
<1>1. UNCHANGED <<tree, check>> /\ writer' = Nobody
  BY DEF Checks!CutShort
<1>2. WriterOK(writer')
  BY <1>1 DEF WriterOK
<1>3. QED
  BY <1>1, <1>2, WriterAlone

LEMMA HardDeleteKept ==
    ASSUME FixityInv, NEW f \in CheckedArticles, Checks!HardDelete(f)
    PROVE  FixityInv'
<1>1. Checks!Becomes(f, Checks!Empty) /\ UNCHANGED writer /\ f \in Checks!Folders
  BY DEF Checks!HardDelete, Checks!Folders
<1>2. QED
  BY <1>1, EmptyIs, BecomesKept DEF FixityInv

LEMMA RotKept ==
    ASSUME FixityInv, NEW f \in Checks!Folders, NEW k \in DOMAIN tree[f], Checks!Rot(f, k)
    PROVE  FixityInv'
<1>1. PICK held \in {Checks!With(tree[f], k, Garbage), Checks!With(tree[f], k, NoRead),
                     Checks!Lacking(tree[f], k)} : Checks!Becomes(f, held)
  BY DEF Checks!Rot
<1>2. UNCHANGED writer
  BY DEF Checks!Rot
<1>3. FolderOK(tree[f]) /\ k \in KeysOfAll /\ {Garbage, NoRead} = Unsound
  BY DEF FixityInv, FolderOK, Unsound
<1>4. FolderOK(Checks!With(tree[f], k, Garbage)) /\ FolderOK(Checks!With(tree[f], k, NoRead))
  BY <1>3, WithIs
<1>5. FolderOK(held)
  BY <1>3, <1>4, LackingIs
<1>6. QED
  BY <1>1, <1>2, <1>5, BecomesKept DEF FixityInv

-----------------------------------------------------------------------------
(* The check goes on, the tree stays.                                      *)
LEMMA CheckGoesOn ==
    ASSUME FixityInv, UNCHANGED <<tree, writer>>, check'.pc \in {"records", "hash"},
           CheckOK(check'),
           \A f \in Checks!Folders \ check'.touched : Seen(f, tree[f], check'),
           \A c \in check'.rotten : StillRotten(c)
    PROVE  FixityInv'
BY DEF FixityInv, StillRotten

LEMMA StartCheckKept ==
    ASSUME FixityInv, Checks!StartCheck
    PROVE  FixityInv'
<1> DEFINE keys == Checks!Keys
           j == [pc |-> "records", stored |-> keys,
                 todo |-> {f \in Checks!Folders : <<f, Checks!Readme>> \in keys}, reading |-> {},
                 versions |-> {}, unreadable |-> {}, named |-> {}, hashing |-> {}, hashes |-> Checks!Empty,
                 touched |-> {}, rotten |-> {c \in keys : Checks!Bytes(c) = Garbage}]
<1>1. check' = j /\ UNCHANGED <<tree, writer>>
  BY DEF Checks!StartCheck
<1>2. \A f \in Checks!Folders : \A k : <<f, k>> \in keys <=> k \in DOMAIN tree[f]
  BY DEF Checks!Keys
<1>3. keys \subseteq Checks!Folders \X KeysOfAll
  BY DEF Checks!Keys, FixityInv, FolderOK
<1>4. \A c \in keys : c[2] \in DOMAIN tree[c[1]] /\ c = <<c[1], c[2]>>
  BY DEF Checks!Keys
<1>5. \A c \in j.rotten : c \in keys /\ StillRotten(c)
  BY <1>4 DEF StillRotten, Checks!Bytes
<1> HIDE DEF keys
<1>6. DOMAIN j.hashes = {}
  BY DEF Checks!Empty
<1>7. CheckOK(j)
  BY <1>3, <1>5, <1>6 DEF CheckOK, CheckFields, RottenSeen
<1>8. \A f \in Checks!Folders : Seen(f, tree[f], j)
  BY <1>2, <1>6 DEF Seen
<1> HIDE DEF j
<1>9. j.pc = "records"
  BY DEF j
<1>10. QED
  BY <1>1, <1>5, <1>7, <1>8, <1>9, CheckGoesOn

LEMMA NextRecordKept ==
    ASSUME FixityInv, NEW g \in Checks!Folders, Checks!NextRecord(g)
    PROVE  FixityInv'
<1> DEFINE more == Checks!VersionsOf(g)
<1>1. /\ check.pc = "records" /\ check.reading = {} /\ g \in check.todo
      /\ check' = [check EXCEPT !.todo = @ \ {g}, !.reading = more]
      /\ UNCHANGED <<tree, writer>>
  BY DEF Checks!NextRecord
<1>2. /\ CheckOK(check) /\ \A c \in check.rotten : StillRotten(c)
      /\ \A f \in Checks!Folders \ check.touched : Seen(f, tree[f], check)
  BY <1>1 DEF FixityInv
<1>3. more \subseteq {g} \X VersionKeys
  BY KeysAreApart DEF Checks!VersionsOf, FixityInv, FolderOK, VersionKeys
<1>4. \A k : <<g, k>> \in more <=> k = Checks!Readme \/ k \in DOMAIN tree[g] \intersect HistoryKeys
  BY KeysAreApart DEF Checks!VersionsOf, FixityInv, FolderOK
<1> HIDE DEF more
<1>5. /\ DOMAIN check' = CheckFields /\ check'.pc = "records"
      /\ check'.todo = check.todo \ {g} /\ check'.reading = more
      /\ check'.stored = check.stored /\ check'.versions = check.versions
      /\ check'.unreadable = check.unreadable /\ check'.named = check.named
      /\ check'.hashing = check.hashing /\ check'.hashes = check.hashes
      /\ check'.touched = check.touched /\ check'.rotten = check.rotten
  BY <1>1, <1>2 DEF CheckOK, CheckFields
<1>6. \A c \in check'.rotten : RottenSeen(c, check')
  BY <1>1, <1>2, <1>5 DEF CheckOK, RottenSeen
<1>7. CheckOK(check')
  BY <1>1, <1>2, <1>3, <1>5, <1>6 DEF CheckOK
<1>8. ASSUME NEW f \in Checks!Folders \ check'.touched PROVE Seen(f, tree[f], check')
  <2>1. Seen(f, tree[f], check)
    BY <1>2, <1>5
  <2>2. CASE f # g
    <3>1. \A k : <<f, k>> \notin more
      BY <1>3, <2>2
    <3>2. QED
      BY <1>1, <1>5, <2>1, <2>2, <3>1 DEF Seen
  <2>3. CASE f = g
    <3>1. Checks!Readme \in DOMAIN tree[g]
      BY <1>1, <1>2, <2>1, <2>3 DEF CheckOK, Seen
    <3>2. \A k : <<g, k>> \in more <=> k \in DOMAIN tree[g] \intersect VersionKeys
      BY <1>4, <3>1 DEF VersionKeys
    <3>3. QED
      BY <1>1, <1>5, <2>1, <2>3, <3>1, <3>2 DEF Seen
  <2>4. QED
    BY <2>2, <2>3
<1>9. QED
  BY <1>1, <1>2, <1>5, <1>7, <1>8, CheckGoesOn

(* A version is read: it is noted as damaged, or what it names is.         *)
LEMMA ReadVersionKept ==
    ASSUME FixityInv, NEW c \in check.reading, Checks!ReadVersion(c)
    PROVE  FixityInv'
<1> DEFINE more == Checks!NamedBy(c)
<1>1. /\ check.pc = "records" /\ UNCHANGED <<tree, writer>>
      /\ check' = [check EXCEPT !.reading = @ \ {c}, !.versions = @ \union {c},
                       !.unreadable = IF Checks!Decodes(c) THEN @ ELSE @ \union {c},
                       !.named = @ \union more]
  BY DEF Checks!ReadVersion
<1>2. /\ CheckOK(check) /\ \A x \in check.rotten : StillRotten(x)
      /\ \A f \in Checks!Folders \ check.touched : Seen(f, tree[f], check)
  BY <1>1 DEF FixityInv
<1>3. PICK g \in Checks!Folders, o \in VersionKeys : c = <<g, o>>
  BY <1>2 DEF CheckOK
<1>4. Checks!Decodes(c) <=> o \in DOMAIN tree[g] /\ tree[g][o] \notin Unsound
  BY <1>3 DEF Checks!Decodes, Checks!Stored, Checks!Bytes, Unsound
<1>5. more = IF Checks!Decodes(c) THEN {<<g, Checks!MediaKey(n)>> : n \in tree[g][o].names} ELSE {}
  BY <1>3 DEF Checks!NamedBy, Checks!Bytes
<1>6. Checks!Decodes(c) => tree[g][o].names \subseteq Names
  BY <1>3, <1>4 DEF FixityInv, FolderOK, Versions
<1>7. more \subseteq {g} \X MediaKeys
  BY <1>5, <1>6 DEF MediaKeys
<1>8. \A n \in Names : <<g, Checks!MediaKey(n)>> \in more <=> Checks!Decodes(c) /\ n \in tree[g][o].names
  BY <1>5, <1>6, KeysAreApart
<1> HIDE DEF more
<1>9. /\ DOMAIN check' = CheckFields /\ check'.pc = "records"
      /\ check'.todo = check.todo /\ check'.reading = check.reading \ {c}
      /\ check'.stored = check.stored /\ check'.versions = check.versions \union {c}
      /\ check'.unreadable = IF Checks!Decodes(c) THEN check.unreadable ELSE check.unreadable \union {c}
      /\ check'.named = check.named \union more
      /\ check'.hashing = check.hashing /\ check'.hashes = check.hashes
      /\ check'.touched = check.touched /\ check'.rotten = check.rotten
  BY <1>1, <1>2 DEF CheckOK, CheckFields
<1>10. \A x \in check'.rotten : RottenSeen(x, check')
  <2> SUFFICES ASSUME NEW x \in check.rotten PROVE RottenSeen(x, check')
    BY <1>9
  <2>1. RottenSeen(x, check) /\ StillRotten(x)
    BY <1>2 DEF CheckOK
  <2>2. x = c => ~Checks!Decodes(c)
    BY <1>3, <1>4, <2>1 DEF StillRotten, Unsound
  <2>3. DOMAIN check.hashes = {}
    BY <1>1, <1>2 DEF CheckOK
  <2>4. QED
    BY <1>9, <2>1, <2>2, <2>3 DEF RottenSeen
<1>11. CheckOK(check')
  <2>1. c \in Checks!Folders \X VersionKeys /\ more \subseteq Checks!Folders \X MediaKeys
    BY <1>3, <1>7
  <2>2. QED
    BY <1>1, <1>2, <1>9, <1>10, <2>1 DEF CheckOK
<1>12. ASSUME NEW f \in Checks!Folders \ check'.touched PROVE Seen(f, tree[f], check')
  <2>1. Seen(f, tree[f], check)
    BY <1>2, <1>9
  <2>2. CASE f # g
    <3>1. \A k : <<f, k>> \notin more /\ <<f, k>> # c
      BY <1>3, <1>7, <2>2
    <3>2. \A k : /\ <<f, k>> \in check'.reading <=> <<f, k>> \in check.reading
                 /\ <<f, k>> \in check'.versions <=> <<f, k>> \in check.versions
                 /\ <<f, k>> \in check'.unreadable <=> <<f, k>> \in check.unreadable
                 /\ <<f, k>> \in check'.named <=> <<f, k>> \in check.named
      BY <1>9, <3>1
    <3>3. QED
      BY <1>9, <2>1, <3>2 DEF Seen
  <2>3. CASE f = g
    <3>1. o \in DOMAIN tree[g] /\ Checks!Readme \in DOMAIN tree[g]
      BY <1>3, <2>1, <2>3 DEF Seen
    <3>2. \A k : <<g, k>> = c <=> k = o
      BY <1>3
    <3>3. \A k : <<g, k>> \in check'.reading \union check'.versions
                     <=> <<g, k>> \in check.reading \union check.versions
      BY <1>3, <1>9
    <3>4. \A k : <<g, k>> \in check'.unreadable <=> <<g, k>> \in check'.versions /\ tree[g][k] \in Unsound
      BY <1>4, <1>9, <2>1, <2>3, <3>1, <3>2 DEF Seen
    <3>5. ASSUME NEW n \in Names
          PROVE  <<g, Checks!MediaKey(n)>> \in check'.named <=>
                     \E k : <<g, k>> \in check'.versions /\ tree[g][k] \notin Unsound /\ n \in tree[g][k].names
      <4>1. <<g, Checks!MediaKey(n)>> \in more <=> tree[g][o] \notin Unsound /\ n \in tree[g][o].names
        BY <1>4, <1>8, <3>1
      <4>2. \A k : <<g, k>> \in check'.versions <=> <<g, k>> \in check.versions \/ k = o
        BY <1>9, <3>2
      <4>3. <<g, Checks!MediaKey(n)>> \in check.named <=>
                 \E k : <<g, k>> \in check.versions /\ tree[g][k] \notin Unsound /\ n \in tree[g][k].names
        BY <2>1, <2>3 DEF Seen
      <4>4. QED
        BY <1>9, <4>1, <4>2, <4>3
    <3>6. QED
      BY <1>9, <2>1, <2>3, <3>3, <3>4, <3>5 DEF Seen
  <2>4. QED
    BY <2>2, <2>3
<1>13. QED
  BY <1>1, <1>2, <1>9, <1>11, <1>12, CheckGoesOn

LEMMA StartHashingKept ==
    ASSUME FixityInv, Checks!StartHashing
    PROVE  FixityInv'
<1>1. /\ check.pc = "records" /\ check.todo = {} /\ check.reading = {}
      /\ check' = [check EXCEPT !.pc = "hash", !.hashing = check.named \intersect check.stored]
      /\ UNCHANGED <<tree, writer>>
  BY DEF Checks!StartHashing
<1>2. /\ CheckOK(check) /\ \A x \in check.rotten : StillRotten(x)
      /\ \A f \in Checks!Folders \ check.touched : Seen(f, tree[f], check)
  BY <1>1 DEF FixityInv
<1>3. /\ DOMAIN check' = CheckFields /\ check'.pc = "hash"
      /\ check'.todo = {} /\ check'.reading = {}
      /\ check'.stored = check.stored /\ check'.versions = check.versions
      /\ check'.unreadable = check.unreadable /\ check'.named = check.named
      /\ check'.hashing = check.named \intersect check.stored /\ check'.hashes = check.hashes
      /\ check'.touched = check.touched /\ check'.rotten = check.rotten
  BY <1>1, <1>2 DEF CheckOK, CheckFields
<1>4. \A x \in check'.rotten : RottenSeen(x, check')
  BY <1>2, <1>3 DEF CheckOK, RottenSeen
<1>5. CheckOK(check')
  BY <1>2, <1>3, <1>4 DEF CheckOK
<1>6. \A f \in Checks!Folders \ check'.touched : Seen(f, tree[f], check')
  BY <1>1, <1>2, <1>3 DEF Seen
<1>7. QED
  BY <1>1, <1>2, <1>3, <1>5, <1>6, CheckGoesOn

LEMMA HashKept ==
    ASSUME FixityInv, NEW c \in check.hashing, Checks!Hash(c)
    PROVE  FixityInv'
<1>1. /\ check.pc = "hash" /\ UNCHANGED <<tree, writer>>
      /\ check' = [check EXCEPT !.hashing = @ \ {c},
                       !.hashes = IF Checks!Stored(c) THEN Checks!With(@, c, Checks!Bytes(c)) ELSE @]
  BY DEF Checks!Hash
<1>2. /\ CheckOK(check) /\ \A x \in check.rotten : StillRotten(x)
      /\ \A f \in Checks!Folders \ check.touched : Seen(f, tree[f], check)
  BY <1>1 DEF FixityInv
<1>3. PICK g \in Checks!Folders, o \in MediaKeys : c = <<g, o>>
  BY <1>2 DEF CheckOK
<1>4. (Checks!Stored(c) <=> o \in DOMAIN tree[g]) /\ Checks!Bytes(c) = tree[g][o]
  BY <1>3 DEF Checks!Stored, Checks!Bytes
<1> DEFINE hashes == IF Checks!Stored(c) THEN Checks!With(check.hashes, c, Checks!Bytes(c)) ELSE check.hashes
<1>5. /\ o \in DOMAIN tree[g] => DOMAIN hashes = DOMAIN check.hashes \union {c} /\ hashes[c] = tree[g][o]
      /\ o \notin DOMAIN tree[g] => hashes = check.hashes
      /\ \A x \in DOMAIN check.hashes : x # c => x \in DOMAIN hashes /\ hashes[x] = check.hashes[x]
      /\ \A x \in DOMAIN hashes : x = c \/ x \in DOMAIN check.hashes
      /\ DOMAIN check.hashes \subseteq DOMAIN hashes
  BY <1>4 DEF Checks!With
<1> HIDE DEF hashes
<1>6. /\ DOMAIN check' = CheckFields /\ check'.pc = "hash"
      /\ check'.todo = check.todo /\ check'.reading = check.reading
      /\ check'.stored = check.stored /\ check'.versions = check.versions
      /\ check'.unreadable = check.unreadable /\ check'.named = check.named
      /\ check'.hashing = check.hashing \ {c} /\ check'.hashes = hashes
      /\ check'.touched = check.touched /\ check'.rotten = check.rotten
  BY <1>1, <1>2 DEF CheckOK, CheckFields, hashes
<1>7. \A x \in check'.rotten : RottenSeen(x, check')
  <2> SUFFICES ASSUME NEW x \in check.rotten PROVE RottenSeen(x, check')
    BY <1>6
  <2>1. RottenSeen(x, check) /\ StillRotten(x)
    BY <1>2 DEF CheckOK
  <2>2. CASE x = c
    <3>1. o \in DOMAIN tree[g] /\ tree[g][o] = Garbage
      BY <1>3, <2>1, <2>2 DEF StillRotten
    <3>2. c \in DOMAIN hashes /\ hashes[c] = Garbage
      BY <1>5, <3>1
    <3>3. QED
      BY <1>6, <2>1, <2>2, <3>2 DEF RottenSeen
  <2>3. CASE x # c
    BY <1>1, <1>5, <1>6, <2>1, <2>3 DEF RottenSeen
  <2>4. QED
    BY <2>2, <2>3
<1>8. CheckOK(check')
  BY <1>1, <1>2, <1>5, <1>6, <1>7 DEF CheckOK
<1>9. ASSUME NEW f \in Checks!Folders \ check'.touched PROVE Seen(f, tree[f], check')
  <2>1. Seen(f, tree[f], check)
    BY <1>2, <1>6
  <2>2. ASSUME NEW k, <<f, k>> \in DOMAIN hashes PROVE hashes[<<f, k>>] = tree[f][k]
    <3>1. CASE <<f, k>> = c /\ o \in DOMAIN tree[g]
      BY <1>3, <1>5, <3>1
    <3>2. CASE ~(<<f, k>> = c /\ o \in DOMAIN tree[g])
      BY <1>5, <2>1, <2>2, <3>2 DEF Seen
    <3>3. QED
      BY <3>1, <3>2
  <2>3. ASSUME NEW k, <<f, k>> \in check.named \intersect check.stored
        PROVE  <<f, k>> \in (check.hashing \ {c}) \union DOMAIN hashes
    <3>1. <<f, k>> \in check.hashing \union DOMAIN check.hashes /\ k \in DOMAIN tree[f]
      BY <1>1, <2>1, <2>3 DEF Seen
    <3>2. CASE <<f, k>> = c
      BY <1>3, <1>5, <3>1, <3>2
    <3>3. CASE <<f, k>> # c
      BY <1>5, <3>1, <3>3
    <3>4. QED
      BY <3>2, <3>3
  <2>4. QED
    BY <1>6, <2>1, <2>2, <2>3 DEF Seen
<1>10. QED
  BY <1>1, <1>2, <1>6, <1>8, <1>9, CheckGoesOn

(***************************************************************************)
(* The report of a check that hashed all it named: of a folder that stayed *)
(* it says what is wrong with it, and every file damaged all along is in   *)
(* it.                                                                     *)
(***************************************************************************)
LEMMA ReportExact ==
    ASSUME NEW j, CheckOK(j), j.pc = "hash", j.hashing = {},
           NEW f \in Checks!Folders, NEW held, FolderOK(held), Seen(f, held, j)
    PROVE  \A kind \in DOMAIN Checks!ReportOf(j) :
              {c \in Checks!ReportOf(j)[kind] : c[1] = f} = FaultsIn(f, held)[kind]
<1> DEFINE kept == {f} \X DOMAIN held
           intact == VersionsIn(f, held)
           listed == NamedIn(f, held)
<1>1. /\ j.todo = {} /\ j.reading = {} /\ DOMAIN j.hashes \subseteq j.named
      /\ \A c \in j.stored \union j.versions \union j.unreadable \union j.named : c = <<c[1], c[2]>>
      /\ \A c \in j.versions \union j.unreadable : c[2] \in VersionKeys
      /\ \A c \in j.named : c[2] \in MediaKeys
  BY DEF CheckOK
<1>2. \A c : c[1] = f /\ c \in j.stored <=> c \in kept
  <2>1. \A k : <<f, k>> \in j.stored <=> k \in DOMAIN held
    BY DEF Seen
  <2>2. QED
    BY <1>1, <2>1
<1>3. \A c : c[1] = f /\ c \in j.versions <=> c \in intact
  <2>1. \A k : <<f, k>> \in j.versions <=> Checks!Readme \in DOMAIN held /\ k \in DOMAIN held \intersect VersionKeys
    <3>1. \A k : <<f, k>> \in j.versions => k \in DOMAIN held /\ Checks!Readme \in DOMAIN held
      BY DEF Seen
    <3>2. Checks!Readme \in DOMAIN held => \A k \in DOMAIN held \intersect VersionKeys : <<f, k>> \in j.versions
      BY <1>1 DEF Seen
    <3>3. \A k : <<f, k>> \in j.versions => k \in VersionKeys
      BY <1>1
    <3>4. QED
      BY <3>1, <3>2, <3>3
  <2>2. \A k \in DOMAIN held : k \in VersionKeys <=> k = Checks!Readme \/ Checks!IsHistoryKey(k)
    BY KeysAreApart DEF FolderOK, VersionKeys
  <2>3. \A k : <<f, k>> \in intact <=> Checks!Readme \in DOMAIN held /\ k \in DOMAIN held \intersect VersionKeys
    BY <2>2 DEF VersionsIn
  <2>4. \A c \in intact : c = <<f, c[2]>>
    BY DEF VersionsIn
  <2> HIDE DEF intact
  <2>5. QED
    BY <1>1, <2>1, <2>3, <2>4
<1>4. \A c \in intact : c = <<f, c[2]>> /\ c[2] \in DOMAIN held /\ c \in kept
  BY DEF VersionsIn
<1>5. \A c : c[1] = f /\ c \in j.unreadable <=> c \in intact /\ held[c[2]] \in Unsound
  <2>1. \A k : <<f, k>> \in j.unreadable <=> <<f, k>> \in j.versions /\ held[k] \in Unsound
    BY DEF Seen
  <2> HIDE DEF intact
  <2>2. ASSUME NEW c, c[1] = f, c \in j.unreadable PROVE c \in intact /\ held[c[2]] \in Unsound
    BY <1>1, <1>3, <2>1, <2>2
  <2>3. ASSUME NEW c \in intact, held[c[2]] \in Unsound PROVE c[1] = f /\ c \in j.unreadable
    BY <1>3, <1>4, <2>1, <2>3
  <2>4. QED
    BY <2>2, <2>3
<1>6. \A c \in intact : held[c[2]] \notin Unsound => held[c[2]].names \subseteq Names
  BY <1>1, <1>3, <1>4 DEF FolderOK, Versions
<1>7. \A c : c[1] = f /\ c \in j.named <=> c \in listed
  <2>1. \A n \in Names :
           <<f, Checks!MediaKey(n)>> \in j.named <=>
               \E k : <<f, k>> \in j.versions /\ held[k] \notin Unsound /\ n \in held[k].names
    BY DEF Seen
  <2>2. \A c \in listed : \E x \in intact, n \in Names :
            c = <<f, Checks!MediaKey(n)>> /\ held[x[2]] \notin Unsound /\ n \in held[x[2]].names
    <3> HIDE DEF intact
    <3>1. QED
      BY <1>6 DEF NamedIn, intact
  <2>3. \A x \in intact : held[x[2]] \notin Unsound =>
            \A n \in held[x[2]].names : <<f, Checks!MediaKey(n)>> \in listed
    BY DEF NamedIn
  <2> HIDE DEF intact, listed
  <2>4. ASSUME NEW c \in listed PROVE c[1] = f /\ c \in j.named
    <3>1. PICK x \in intact, n \in Names :
              c = <<f, Checks!MediaKey(n)>> /\ held[x[2]] \notin Unsound /\ n \in held[x[2]].names
      BY <2>2, <2>4
    <3>2. <<f, x[2]>> \in j.versions
      BY <1>3, <1>4
    <3>3. QED
      BY <2>1, <3>1, <3>2
  <2>5. ASSUME NEW c \in j.named, c[1] = f PROVE c \in listed
    <3>1. PICK n \in Names : c = <<f, Checks!MediaKey(n)>>
      BY <1>1, <2>5 DEF MediaKeys
    <3>2. PICK k : <<f, k>> \in j.versions /\ held[k] \notin Unsound /\ n \in held[k].names
      BY <2>1, <3>1
    <3>3. <<f, k>> \in intact
      BY <1>3, <3>2
    <3>4. QED
      BY <2>3, <3>1, <3>2, <3>3
  <2>6. QED
    BY <2>4, <2>5
<1>8. \A c : c[1] = f /\ c \in DOMAIN j.hashes <=> c \in listed \intersect kept
  <2> HIDE DEF kept, listed
  <2>1. ASSUME NEW c \in listed \intersect kept PROVE c[1] = f /\ c \in DOMAIN j.hashes
    <3>1. c[1] = f /\ c \in j.named /\ c \in j.stored /\ c = <<f, c[2]>>
      BY <1>1, <1>2, <1>7
    <3>2. <<f, c[2]>> \in j.named \intersect j.stored => <<f, c[2]>> \in DOMAIN j.hashes
      BY DEF Seen
    <3>3. QED
      BY <3>1, <3>2
  <2>2. ASSUME NEW c \in DOMAIN j.hashes, c[1] = f PROVE c \in listed \intersect kept
    <3>1. c \in j.named /\ c = <<f, c[2]>>
      BY <1>1, <2>2
    <3>2. c \in j.stored
      BY <3>1 DEF CheckOK
    <3>3. QED
      BY <1>2, <1>7, <2>2, <3>1, <3>2
  <2>3. QED
    BY <2>1, <2>2
<1>9. \A c \in listed \intersect kept :
          j.hashes[c] = held[c[2]] /\ held[c[2]] \in {c[2][2]} \union Unsound /\ c[2][2] \in Names
  <2> HIDE DEF kept, listed
  <2> TAKE c \in listed \intersect kept
  <2>1. c \in DOMAIN j.hashes /\ c[1] = f /\ c \in j.named
    BY <1>7, <1>8
  <2>2. c = <<f, c[2]>>
    BY <1>1, <2>1
  <2>3. j.hashes[c] = held[c[2]]
    BY <2>1, <2>2 DEF Seen
  <2>4. PICK n \in Names : c[2] = Checks!MediaKey(n)
    BY <1>1, <2>1 DEF MediaKeys
  <2>5. c[2] \in DOMAIN held
    BY DEF kept
  <2>6. held[c[2]] \in {n} \union Unsound
    BY <2>4, <2>5 DEF FolderOK
  <2>7. QED
    BY <2>3, <2>4, <2>6, KeysAreApart
<1> DEFINE report == Checks!ReportOf(j)
           faults == FaultsIn(f, held)
<1>10. /\ report.unreadable_readmes = j.unreadable
       /\ report.unreadable_files = {x \in DOMAIN j.hashes : j.hashes[x] = NoRead}
       /\ report.altered = {x \in DOMAIN j.hashes : j.hashes[x] \notin {NoRead, x[2][2]}}
       /\ report.missing = j.named \ DOMAIN j.hashes
       /\ report.unreferenced = j.stored \ (j.versions \union j.named)
       /\ DOMAIN report = {"unreadable_readmes", "unreadable_files", "altered", "missing", "unreferenced"}
  BY DEF Checks!ReportOf
<1>11. /\ faults.unreadable_readmes = {c \in intact : held[c[2]] \in Unsound}
       /\ faults.unreadable_files = {c \in listed \intersect kept : held[c[2]] = NoRead}
       /\ faults.altered = {c \in listed \intersect kept : held[c[2]] = Garbage}
       /\ faults.missing = listed \ kept
       /\ faults.unreferenced = kept \ (intact \union listed)
  BY DEF FaultsIn
<1> HIDE DEF report, faults, kept, intact, listed
<1>12. {c \in report.unreadable_readmes : c[1] = f} = faults.unreadable_readmes
  BY <1>5, <1>10, <1>11
<1>13. {c \in report.unreadable_files : c[1] = f} = faults.unreadable_files
  BY <1>8, <1>9, <1>10, <1>11
<1>14. {c \in report.altered : c[1] = f} = faults.altered
  <2>1. \A c \in listed \intersect kept : j.hashes[c] \notin {NoRead, c[2][2]} <=> held[c[2]] = Garbage
    BY <1>9, GarbageAssumption DEF Unsound
  <2>2. QED
    BY <1>8, <1>10, <1>11, <2>1
<1>15. {c \in report.missing : c[1] = f} = faults.missing
  BY <1>7, <1>8, <1>10, <1>11
<1>16. {c \in report.unreferenced : c[1] = f} = faults.unreferenced
  BY <1>2, <1>3, <1>7, <1>10, <1>11
<1>17. QED
  BY <1>10, <1>12, <1>13, <1>14, <1>15, <1>16 DEF report, faults

(* A file damaged all along is in the report, whoever wrote its folder.    *)
LEMMA RottenIsTold ==
    ASSUME NEW j, CheckOK(j), j.pc = "hash", j.hashing = {}, NEW c \in j.rotten
    PROVE  \E kind \in DOMAIN Checks!ReportOf(j) : c \in Checks!ReportOf(j)[kind]
<1>1. RottenSeen(c, j)
  BY DEF CheckOK
<1>2. CASE c \in j.versions
  <2>1. c \in Checks!ReportOf(j)["unreadable_readmes"]
    BY <1>1, <1>2 DEF RottenSeen, Checks!ReportOf
  <2>2. QED
    BY <2>1 DEF Checks!ReportOf
<1>3. CASE c \in j.named
  <2>1. c \in DOMAIN j.hashes /\ j.hashes[c] = Garbage
    BY <1>1, <1>3 DEF RottenSeen
  <2>2. c[2][2] \in Names
    BY <1>3, KeysAreApart DEF CheckOK, MediaKeys
  <2>3. c \in Checks!ReportOf(j)["altered"]
    BY <2>1, <2>2, GarbageAssumption DEF Checks!ReportOf
  <2>4. QED
    BY <2>3 DEF Checks!ReportOf
<1>4. CASE c \notin j.versions /\ c \notin j.named
  <2>1. c \in Checks!ReportOf(j)["unreferenced"]
    BY <1>1, <1>4 DEF RottenSeen, Checks!ReportOf
  <2>2. QED
    BY <2>1 DEF Checks!ReportOf
<1>5. QED
  BY <1>2, <1>3, <1>4

LEMMA EndCheckKept ==
    ASSUME FixityInv, Checks!EndCheck
    PROVE  FixityInv'
<1> DEFINE report == Checks!ReportOf(check)
<1>1. /\ check.pc = "hash" /\ check.hashing = {} /\ UNCHANGED <<tree, writer>>
      /\ check' = [pc |-> "done", report |-> report, touched |-> check.touched, rotten |-> check.rotten]
  BY DEF Checks!EndCheck
<1>2. /\ CheckOK(check)
      /\ \A f \in Checks!Folders \ check.touched : Seen(f, tree[f], check)
  BY <1>1 DEF FixityInv
<1>3. ASSUME NEW f \in Checks!Folders \ check.touched, NEW kind \in DOMAIN report
      PROVE  {c \in report[kind] : c[1] = f} = Checks!Faults(f)'[kind]
  <2>1. FolderOK(tree[f]) /\ Seen(f, tree[f], check)
    BY <1>2 DEF FixityInv
  <2>2. {c \in report[kind] : c[1] = f} = FaultsIn(f, tree[f])[kind]
    BY <1>1, <1>2, <2>1, ReportExact
  <2> HIDE DEF report
  <2>3. QED
    BY <1>1, <2>2, FaultsIsNext
<1>4. \A c \in check.rotten : \E kind \in DOMAIN report : c \in report[kind]
  BY <1>1, <1>2, RottenIsTold
<1> HIDE DEF report
<1>5. /\ check'.pc = "done" /\ DOMAIN check' = {"pc", "report", "touched", "rotten"}
      /\ check'.report = report /\ check'.touched = check.touched /\ check'.rotten = check.rotten
  BY <1>1
<1>6. FindingsExact'
  BY <1>3, <1>4, <1>5 DEF FindingsExact, Checks!FindingsExact
<1>7. QED
  BY <1>1, <1>5, <1>6 DEF FixityInv

LEMMA FixityStep == FixityInv /\ Checks!FixityNext => FixityInv'
<1> SUFFICES ASSUME FixityInv, Checks!FixityNext PROVE FixityInv'
  OBVIOUS
<1>1. CASE \/ \E f \in CheckedArticles, name \in Names : Checks!Place(f, name)
           \/ \E f \in Checks!Folders, names \in SUBSET Names : Checks!BeginSave(f, names)
           \/ Checks!Commit \/ Checks!CutShort
           \/ \E f \in CheckedArticles : Checks!HardDelete(f)
           \/ \E f \in Checks!Folders : \E k \in DOMAIN tree[f] : Checks!Rot(f, k)
  BY <1>1, PlaceFileKept, BeginSaveKept, CommitKept, CutShortKept, HardDeleteKept, RotKept
<1>2. CASE \/ Checks!StartCheck \/ Checks!StartHashing \/ Checks!EndCheck
           \/ \E f \in Checks!Folders : Checks!NextRecord(f)
           \/ \E c \in check.reading : Checks!ReadVersion(c)
           \/ \E c \in check.hashing : Checks!Hash(c)
  BY <1>2, StartCheckKept, StartHashingKept, EndCheckKept, NextRecordKept, ReadVersionKept, HashKept
<1>3. QED
  BY <1>1, <1>2 DEF Checks!FixityNext

(***************************************************************************)
(* For any number of records, files, saves, uploads, hard deletes and      *)
(* damages while it runs: a check that ended tells all that is wrong with  *)
(* the folders nobody wrote meanwhile and nothing else of them, and every  *)
(* file that was damaged from its start to its end (fixity.verify).        *)
(***************************************************************************)
THEOREM FindingsExactHolds == AroundSpec => []FindingsExact
<1>1. AroundInit => FixityInv
  BY FixityStarts DEF AroundInit
<1>2. FixityInv /\ [AroundNext]_aroundVars => FixityInv'
  <2> SUFFICES ASSUME FixityInv, [AroundNext]_aroundVars PROVE FixityInv'
    OBVIOUS
  <2>1. Checks!FixityNext \/ UNCHANGED checkVars
    BY DEF AroundNext, aroundVars, OfTexts
  <2>2. CASE UNCHANGED checkVars
    BY <2>2, WriterAlone DEF checkVars, FixityInv
  <2>3. QED
    BY <2>1, <2>2, FixityStep
<1>3. FixityInv => FindingsExact
  BY DEF FixityInv, FindingsExact, Checks!FindingsExact
<1>4. QED
  BY <1>1, <1>2, <1>3, PTL DEF AroundSpec

-----------------------------------------------------------------------------
(***************************************************************************)
(* The import of the old site.  While a run makes the Collections there is *)
(* no Article of a row yet and it knows every name that an import gave;    *)
(* while it writes Articles, those of rows are of rows before the next.    *)
(***************************************************************************)
IsSeq(s) == \E S : s \in Seq(S)

LEMMA AppendIs ==
    ASSUME NEW s, IsSeq(s), NEW e
    PROVE  /\ IsSeq(Append(s, e))
           /\ Len(s) \in Nat /\ DOMAIN s = 1..Len(s)
           /\ DOMAIN Append(s, e) = 1..(Len(s) + 1)
           /\ \A i \in DOMAIN s : Append(s, e)[i] = s[i]
           /\ Append(s, e)[Len(s) + 1] = e
<1>1. PICK S : s \in Seq(S)
  BY DEF IsSeq
<1>2. s \in Seq(S \union {e})
  BY <1>1
<1>3. Append(s, e) \in Seq(S \union {e})
  BY <1>2
<1>4. QED
  BY <1>2, <1>3 DEF IsSeq

LEMMA ReplaceIs ==
    ASSUME NEW s, IsSeq(s), NEW u \in DOMAIN s, NEW e
    PROVE  IsSeq([s EXCEPT ![u] = e])
<1>1. PICK S : s \in Seq(S)
  BY DEF IsSeq
<1>2. [s EXCEPT ![u] = e] \in Seq(S \union {e})
  BY <1>1
<1>3. QED
  BY <1>2 DEF IsSeq

ImportInv ==
    /\ IsSeq(sections) /\ IsSeq(records)
    /\ run.pc \in {"idle", "dry", "done", "collections", "articles"}
    /\ \A i \in DOMAIN records : records[i].row \in Nat
    /\ run.pc = "collections" =>
          /\ DOMAIN run = {"pc", "root", "existing"}
          /\ \A i \in DOMAIN records : records[i].row = 0
          /\ \A u \in DOMAIN sections : sections[u].imported => sections[u].name \in DOMAIN run.existing
    /\ run.pc = "articles" =>
          /\ DOMAIN run = {"pc", "root", "existing", "next", "missing"}
          /\ run.next \in Nat \ {0}
          /\ \A i \in DOMAIN records : records[i].row < run.next
    /\ ImportedOnce

LEMMA ImportStarts == Import!ImportInit => ImportInv
<1>1. IsSeq(<<>>)
  BY DEF IsSeq
<1>2. QED
  BY <1>1 DEF ImportInv, Import!ImportInit, Import!Idle, ImportedOnce, Import!ImportedOnce

(* A run that ends, dies or loses the drive.                               *)
LEMMA RestKept ==
    ASSUME ImportInv, UNCHANGED <<sections, records>>,
           run'.pc \in {"idle", "dry", "done"}
    PROVE  ImportInv'
BY DEF ImportInv, ImportedOnce, Import!ImportedOnce

LEMMA StartKept ==
    ASSUME ImportInv, NEW root, Import!Start(root)
    PROVE  ImportInv'
<1>1. /\ UNCHANGED <<sections, records>> /\ records = <<>>
      /\ run' = [pc |-> "collections", root |-> root, existing |-> Import!Existing]
  BY DEF Import!Start, Import!Refuses
<1>2. \A u \in DOMAIN sections : sections[u].name \in DOMAIN Import!Existing
  BY DEF Import!Existing, Import!ToSet
<1>3. QED
  BY <1>1, <1>2 DEF ImportInv, ImportedOnce, Import!ImportedOnce

LEMMA CreateCollectionKept ==
    ASSUME ImportInv, Import!CreateCollection
    PROVE  ImportInv'
<1>1. PICK name :
          /\ name \notin DOMAIN run.existing
          /\ sections' = Append(sections, [name |-> name, readable |-> TRUE, imported |-> TRUE])
          /\ run' = [run EXCEPT !.existing =
                        [other \in DOMAIN run.existing \union {name} |->
                            IF other = name THEN Len(sections') ELSE run.existing[other]]]
  BY DEF Import!CreateCollection, Import!Lacks
<1>2. run.pc = "collections" /\ UNCHANGED records
  BY DEF Import!CreateCollection
<1> DEFINE new == [name |-> name, readable |-> TRUE, imported |-> TRUE]
           n == Len(sections) + 1
<1>3. /\ IsSeq(sections') /\ DOMAIN sections = 1..Len(sections) /\ Len(sections) \in Nat
      /\ DOMAIN sections' = 1..n /\ sections'[n] = new
      /\ \A u \in DOMAIN sections : sections'[u] = sections[u]
  BY <1>1, AppendIs DEF ImportInv
<1>4. DOMAIN run = {"pc", "root", "existing"}
  BY <1>2 DEF ImportInv
<1>5. /\ run'.pc = "collections" /\ DOMAIN run' = {"pc", "root", "existing"}
      /\ DOMAIN run'.existing = DOMAIN run.existing \union {name}
  BY <1>1, <1>2, <1>4
<1>6. \A u \in DOMAIN sections' : u \in DOMAIN sections \/ u = n
  BY <1>3
<1>7. \A u \in DOMAIN sections : sections[u].imported => sections[u].name \in DOMAIN run.existing
  BY <1>2 DEF ImportInv
<1>8. \A u \in DOMAIN sections' :
          sections'[u].imported => sections'[u].name \in DOMAIN run'.existing
  BY <1>3, <1>5, <1>6, <1>7
<1>9. \A u \in DOMAIN sections : sections[u].imported => sections[u].name # name
  BY <1>1, <1>7
<1>10. ImportedOnce'
  <2>1. \A u, w \in DOMAIN sections' :
            u # w /\ sections'[u].imported /\ sections'[w].imported => sections'[u].name # sections'[w].name
    BY <1>3, <1>6, <1>9 DEF ImportInv, ImportedOnce, Import!ImportedOnce
  <2>2. QED
    BY <1>2, <2>1 DEF ImportInv, ImportedOnce, Import!ImportedOnce
<1>11. QED
  BY <1>2, <1>3, <1>5, <1>8, <1>10 DEF ImportInv

LEMMA PlanKept ==
    ASSUME ImportInv, Import!Plan
    PROVE  ImportInv'
<1>1. /\ UNCHANGED <<sections, records>> /\ run.pc = "collections"
      /\ run' = [pc |-> "articles", root |-> run.root, existing |-> run.existing,
                 next |-> 1, missing |-> {}]
  BY DEF Import!Plan
<1>2. \A i \in DOMAIN records : records[i].row = 0
  BY <1>1 DEF ImportInv
<1>3. QED
  BY <1>1, <1>2 DEF ImportInv, ImportedOnce, Import!ImportedOnce

(* One Article more: its row is no other's.                                *)
LEMMA ArticleAdded ==
    ASSUME ImportInv, NEW new, records' = Append(records, new), UNCHANGED sections,
           new.row \in Nat,
           new.row # 0 => \A i \in DOMAIN records : records[i].row # new.row
    PROVE  /\ IsSeq(records') /\ ImportedOnce'
           /\ \A i \in DOMAIN records' : records'[i] = new \/ \E k \in DOMAIN records : records'[i] = records[k]
<1> DEFINE n == Len(records) + 1
<1>1. /\ IsSeq(records') /\ DOMAIN records = 1..Len(records) /\ Len(records) \in Nat
      /\ DOMAIN records' = 1..n /\ records'[n] = new
      /\ \A i \in DOMAIN records : records'[i] = records[i]
  BY AppendIs DEF ImportInv
<1>2. \A i \in DOMAIN records' : i \in DOMAIN records \/ i = n
  BY <1>1
<1>3. \A i, j \in DOMAIN records' : i # j /\ records'[i].row # 0 => records'[i].row # records'[j].row
  BY <1>1, <1>2 DEF ImportInv, ImportedOnce, Import!ImportedOnce
<1>4. ImportedOnce'
  BY <1>3 DEF ImportInv, ImportedOnce, Import!ImportedOnce
<1>5. QED
  BY <1>1, <1>2, <1>4

LEMMA WriteArticleKept ==
    ASSUME ImportInv, Import!WriteArticle
    PROVE  ImportInv'
<1> DEFINE new == Import!ArticleOf(run.next, run.existing, run.root)
<1>1. /\ run.pc = "articles" /\ records' = Append(records, new) /\ UNCHANGED sections
      /\ run' = [run EXCEPT !.next = @ + 1, !.missing = @ \union Import!MissingOf(run.next, run.root)]
  BY DEF Import!WriteArticle
<1>2. /\ DOMAIN run = {"pc", "root", "existing", "next", "missing"}
      /\ run.next \in Nat \ {0}
      /\ \A i \in DOMAIN records : records[i].row < run.next /\ records[i].row \in Nat
  BY <1>1 DEF ImportInv
<1>3. new.row = run.next
  BY DEF Import!ArticleOf
<1> HIDE DEF new
<1>4. /\ IsSeq(records') /\ ImportedOnce'
      /\ \A i \in DOMAIN records' : records'[i] = new \/ \E k \in DOMAIN records : records'[i] = records[k]
  BY <1>1, <1>2, <1>3, ArticleAdded
<1>5. run'.pc = "articles" /\ DOMAIN run' = DOMAIN run /\ run'.next = run.next + 1
  BY <1>1, <1>2
<1>6. \A i \in DOMAIN records' : records'[i].row \in Nat /\ records'[i].row < run'.next
  BY <1>2, <1>3, <1>4, <1>5
<1>7. QED
  BY <1>1, <1>2, <1>4, <1>5, <1>6 DEF ImportInv

LEMMA UnmountKept ==
    ASSUME ImportInv, Import!Unmount
    PROVE  ImportInv'
<1>1. UNCHANGED <<sections, records>> /\ run.pc = "articles" /\ run' = [run EXCEPT !.root = {}]
  BY DEF Import!Unmount
<1>2. /\ DOMAIN run' = {"pc", "root", "existing", "next", "missing"} /\ run'.next = run.next
      /\ run'.pc = "articles"
  BY <1>1 DEF ImportInv
<1>3. QED
  BY <1>1, <1>2 DEF ImportInv, ImportedOnce, Import!ImportedOnce

(* What archivists and the disk do meanwhile.                              *)
LEMMA DamageKept ==
    ASSUME ImportInv, NEW u \in DOMAIN sections, Import!Damage(u)
    PROVE  ImportInv'
<1>1. /\ UNCHANGED <<records, run>>
      /\ sections' = [sections EXCEPT ![u] = [sections[u] EXCEPT !.readable = ~sections[u].readable]]
  BY DEF Import!Damage
<1>2. IsSeq(sections') /\ DOMAIN sections' = DOMAIN sections
  BY <1>1, ReplaceIs DEF ImportInv
<1>3. \A w \in DOMAIN sections :
          sections'[w].name = sections[w].name /\ sections'[w].imported = sections[w].imported
  BY <1>1
<1>4. QED
  BY <1>1, <1>2, <1>3 DEF ImportInv, ImportedOnce, Import!ImportedOnce

LEMMA CatalogKept ==
    ASSUME ImportInv, Import!Catalog
    PROVE  ImportInv'
<1>0. UNCHANGED run
  BY DEF Import!Catalog
<1>1. ASSUME NEW name, UNCHANGED records,
             sections' = Append(sections, [name |-> name, readable |-> TRUE, imported |-> FALSE])
      PROVE  ImportInv'
  <2> DEFINE n == Len(sections) + 1
  <2>1. /\ IsSeq(sections') /\ DOMAIN sections = 1..Len(sections) /\ Len(sections) \in Nat
        /\ DOMAIN sections' = 1..n /\ ~sections'[n].imported
        /\ \A u \in DOMAIN sections : sections'[u] = sections[u]
    BY <1>1, AppendIs DEF ImportInv
  <2>2. \A u \in DOMAIN sections' : u \in DOMAIN sections \/ u = n
    BY <2>1
  <2>3. QED
    BY <1>0, <1>1, <2>1, <2>2 DEF ImportInv, ImportedOnce, Import!ImportedOnce
<1>2. ASSUME NEW new, UNCHANGED sections, records' = Append(records, new), new.row = 0
      PROVE  ImportInv'
  <2>1. /\ IsSeq(records') /\ ImportedOnce'
        /\ \A i \in DOMAIN records' : records'[i] = new \/ \E k \in DOMAIN records : records'[i] = records[k]
    BY <1>2, ArticleAdded
  <2>2. QED
    BY <1>0, <1>2, <2>1 DEF ImportInv
<1>3. QED
  BY <1>1, <1>2 DEF Import!Catalog

LEMMA ImportStep == ImportInv /\ Import!ImportNext => ImportInv'
<1> SUFFICES ASSUME ImportInv, Import!ImportNext PROVE ImportInv'
  OBVIOUS
<1>1. ASSUME NEW root, Import!DryRun(root) PROVE ImportInv'
  BY <1>1, RestKept DEF Import!DryRun
<1>2. CASE Import!Report \/ Import!Die
  BY <1>2, RestKept DEF Import!Report, Import!Die, Import!Idle
<1>3. QED
  BY <1>1, <1>2, StartKept, CreateCollectionKept, PlanKept, WriteArticleKept, UnmountKept,
     DamageKept, CatalogKept
  DEF Import!ImportNext

(***************************************************************************)
(* However often a run dies and is started again, no row becomes two       *)
(* Articles and no name two Collections (import_legacy, Command.handle and *)
(* _create_collections).                                                   *)
(***************************************************************************)
THEOREM ImportedOnceHolds == AroundSpec => []ImportedOnce
<1>1. AroundInit => ImportInv
  BY ImportStarts DEF AroundInit
<1>2. ImportInv /\ [AroundNext]_aroundVars => ImportInv'
  <2> SUFFICES ASSUME ImportInv, [AroundNext]_aroundVars PROVE ImportInv'
    OBVIOUS
  <2>1. Import!ImportNext \/ UNCHANGED importVars
    BY DEF AroundNext, aroundVars, OfTexts
  <2>2. QED
    BY <2>1, ImportStep DEF importVars, ImportInv, ImportedOnce, Import!ImportedOnce
<1>3. ImportInv => ImportedOnce
  BY DEF ImportInv
<1>4. QED
  BY <1>1, <1>2, <1>3, PTL DEF AroundSpec

-----------------------------------------------------------------------------
(***************************************************************************)
(* Nothing vanishes.  The rank of one of a few, by a number no two of them *)
(* share, counts those up to it: each place in their order is taken once.  *)
(***************************************************************************)
UpTo(some, key, f) == {g \in some : key[g] <= key[f]}
Rank(some, key) == [f \in some |-> Cardinality(UpTo(some, key, f))]

LEMMA RanksFill ==
    ASSUME NEW some, IsFiniteSet(some), NEW key \in [some -> Nat],
           \A f, g \in some : key[f] = key[g] => f = g
    PROVE  /\ Rank(some, key) \in Bijection(some, 1..Cardinality(some))
           /\ \A f, g \in some : key[f] <= key[g] => Rank(some, key)[f] <= Rank(some, key)[g]
<1> DEFINE n == Cardinality(some)
           rank == Rank(some, key)
           To(f) == UpTo(some, key, f)
<1>0. n \in Nat /\ IsFiniteSet(1..n) /\ Cardinality(1..n) = n
  BY FS_CardinalityType, FS_Interval
<1>1. ASSUME NEW f \in some
      PROVE  /\ IsFiniteSet(To(f)) /\ Cardinality(To(f)) \in 1..n
             /\ f \in To(f)
  <2>1. To(f) \in SUBSET some /\ f \in To(f)
    BY DEF UpTo
  <2>2. IsFiniteSet(To(f)) /\ Cardinality(To(f)) <= n
    BY <2>1, FS_Subset
  <2>3. Cardinality(To(f)) \in Nat /\ Cardinality(To(f)) # 0
    BY <2>1, <2>2, FS_CardinalityType, FS_EmptySet
  <2>4. QED
    BY <1>0, <2>1, <2>2, <2>3
<1>2. ASSUME NEW f \in some, NEW g \in some, key[f] <= key[g]
      PROVE  Cardinality(To(f)) <= Cardinality(To(g))
  <2>1. To(f) \in SUBSET To(g)
    BY <1>2 DEF UpTo
  <2>2. QED
    BY <1>1, <2>1, FS_Subset
<1>3. ASSUME NEW f \in some, NEW g \in some, key[f] < key[g]
      PROVE  Cardinality(To(f)) # Cardinality(To(g))
  <2>1. To(f) \in SUBSET To(g) /\ g \notin To(f)
    BY <1>3 DEF UpTo
  <2>2. To(f) # To(g)
    BY <1>1, <2>1
  <2>3. QED
    BY <1>1, <2>1, <2>2, FS_Subset
<1>4. rank = [f \in some |-> Cardinality(To(f))]
  BY DEF Rank
<1> HIDE DEF n, rank, To
<1>5. rank \in [some -> 1..n]
  BY <1>1, <1>4
<1>6. \A f, g \in some : rank[f] = rank[g] => f = g
  <2> SUFFICES ASSUME NEW f \in some, NEW g \in some, f # g PROVE rank[f] # rank[g]
    OBVIOUS
  <2>1. key[f] < key[g] \/ key[g] < key[f]
    OBVIOUS
  <2>2. QED
    BY <1>3, <1>4, <2>1
<1>7. rank \in Injection(some, 1..n)
  BY <1>5, <1>6 DEF Injection, IsInjective
<1>8. rank \in Surjection(some, 1..n)
  BY <1>0, <1>7, FS_Injection DEF n
<1>9. QED
  BY <1>2, <1>4, <1>7, <1>8 DEF Bijection, n, rank

LEMMA SameCardinality == \A some : Import!Cardinality(some) = Cardinality(some)
BY DEF Import!Cardinality, Cardinality

LEMMA InSlotOrderIs ==
    ASSUME NEW some, IsFiniteSet(some), \A f \in some : f.slot \in Nat,
           \A f, g \in some : f.slot = g.slot => f = g
    PROVE  /\ Import!ToSet(Import!InSlotOrder(some)) = some
           /\ \A k, l \in DOMAIN Import!InSlotOrder(some) :
                  k < l => Import!InSlotOrder(some)[k].slot < Import!InSlotOrder(some)[l].slot
<1> DEFINE n == Cardinality(some)
           key == [f \in some |-> f.slot]
           rank == Rank(some, key)
           Ordered(s) == \A k, l \in DOMAIN s : k < l => s[k].slot < s[l].slot
<1>0. n \in Nat /\ IsFiniteSet(1..n) /\ Cardinality(1..n) = n
  BY FS_CardinalityType, FS_Interval
<1>1. key \in [some -> Nat] /\ \A f \in some : key[f] = f.slot
  OBVIOUS
<1> HIDE DEF key
<1>2. \A f, g \in some : key[f] = key[g] => f = g
  BY <1>1
<1>3. rank \in Bijection(some, 1..n) /\ \A f, g \in some : key[f] <= key[g] => rank[f] <= rank[g]
  BY <1>1, <1>2, RanksFill
<1> HIDE DEF n, rank
<1>4. rank \in [some -> 1..n] /\ \A f, g \in some : f.slot <= g.slot => rank[f] <= rank[g]
  BY <1>1, <1>3 DEF Bijection, Injection
<1>5. \A k \in 1..n : \E f \in some : rank[f] = k
  BY <1>3 DEF Bijection, Surjection
<1> DEFINE line == [k \in 1..n |-> CHOOSE f \in some : rank[f] = k]
<1>6. line \in [1..n -> some] /\ \A k \in 1..n : rank[line[k]] = k
  BY <1>5
<1> HIDE DEF line
<1>7. Ordered(line)
  <2> SUFFICES ASSUME NEW k \in 1..n, NEW l \in 1..n, k < l PROVE line[k].slot < line[l].slot
    BY <1>6
  <2>1. line[k] \in some /\ line[l] \in some /\ line[k].slot \in Nat /\ line[l].slot \in Nat
    BY <1>6
  <2>2. line[l].slot <= line[k].slot => l <= k
    BY <1>4, <1>6, <2>1
  <2>3. k \in Int /\ l \in Int
    BY <1>0
  <2>4. QED
    BY <2>1, <2>2, <2>3
<1>8. \E s \in [1..n -> some] : Ordered(s)
  BY <1>6, <1>7
<1> DEFINE chosen == Import!InSlotOrder(some)
<1>a. chosen = CHOOSE s \in [1..n -> some] : Ordered(s)
  BY SameCardinality DEF Import!InSlotOrder, n
<1> HIDE DEF chosen, Ordered
<1>9. chosen \in [1..n -> some] /\ Ordered(chosen)
  BY <1>8, <1>a, Zenon
<1> USE DEF Ordered
<1>10. \A k, l \in 1..n : chosen[k] = chosen[l] => k = l
  <2> SUFFICES ASSUME NEW k \in 1..n, NEW l \in 1..n, k # l PROVE chosen[k] # chosen[l]
    OBVIOUS
  <2>1. chosen[k].slot \in Nat /\ chosen[l].slot \in Nat
    BY <1>9
  <2>2. k < l \/ l < k
    BY <1>0
  <2>3. QED
    BY <1>9, <2>1, <2>2
<1>11. chosen \in Injection(1..n, some)
  BY <1>9, <1>10 DEF Injection, IsInjective
<1>12. chosen \in Surjection(1..n, some)
  BY <1>0, <1>11, FS_Injection DEF n
<1>13. Import!ToSet(chosen) = some
  BY <1>9, <1>12 DEF Import!ToSet, Surjection
<1>14. QED
  BY <1>9, <1>13 DEF chosen

(* The first few of a set of rows are as many as there are, or as there is *)
(* room for.                                                               *)
LEMMA FirstRowsFill ==
    ASSUME NEW some \in SUBSET DOMAIN Items
    PROVE  /\ IsFiniteSet(some) /\ Cardinality(some) \in Nat
           /\ Cardinality(Import!FirstRows(some))
                 = IF Cardinality(some) < MaxSamples THEN Cardinality(some) ELSE MaxSamples
<1> DEFINE n == Cardinality(some)
           m == IF n < MaxSamples THEN n ELSE MaxSamples
           key == [i \in some |-> i]
           rank == Rank(some, key)
           first == Import!FirstRows(some)
<1>1. some \in SUBSET Nat /\ IsFiniteSet(some)
  <2>1. DOMAIN Items = 1..Len(Items) /\ Len(Items) \in Nat
    BY LegacyAssumption
  <2>2. IsFiniteSet(1..Len(Items))
    BY <2>1, FS_Interval
  <2>3. QED
    BY <2>1, <2>2, FS_Subset
<1>2. n \in Nat /\ MaxSamples \in Nat
  BY <1>1, FS_CardinalityType, LegacyAssumption
<1>3. key \in [some -> Nat] /\ \A i \in some : key[i] = i
  BY <1>1
<1> HIDE DEF key
<1>4. rank \in Bijection(some, 1..n)
  BY <1>1, <1>3, RanksFill
<1>5. ASSUME NEW i \in some
      PROVE  rank[i] = Cardinality({k \in some : k < i}) + 1
  <2> DEFINE before == {k \in some : k < i}
  <2>1. UpTo(some, key, i) = before \union {i} /\ i \notin before
    BY <1>1, <1>3 DEF UpTo
  <2>2. IsFiniteSet(before)
    BY <1>1, FS_Subset
  <2> HIDE DEF before
  <2>3. Cardinality(before \union {i}) = Cardinality(before) + 1
    BY <2>1, <2>2, FS_AddElement
  <2>4. QED
    BY <2>1, <2>3 DEF Rank, before
<1>6. first = {i \in some : Cardinality({k \in some : k < i}) < MaxSamples}
  BY SameCardinality DEF Import!FirstRows
<1> HIDE DEF n, rank, first
<1>7. /\ rank \in [some -> 1..n]
      /\ \A i, k \in some : rank[i] = rank[k] => i = k
      /\ \A p \in 1..n : \E i \in some : rank[i] = p
  BY <1>4 DEF Bijection, Injection, Surjection, IsInjective
<1>8. first \in SUBSET some /\ \A i \in some : i \in first <=> rank[i] \in 1..m
  <2>1. ASSUME NEW i \in some PROVE Cardinality({k \in some : k < i}) \in Nat
    BY <1>1, FS_Subset, FS_CardinalityType
  <2>2. QED
    BY <1>2, <1>5, <1>6, <1>7, <2>1
<1> DEFINE place == [i \in first |-> rank[i]]
<1>9. m \in Nat /\ \A p \in 1..m : p \in 1..n
  BY <1>2
<1> HIDE DEF m
<1>10. place \in Bijection(first, 1..m)
  <2>1. place \in [first -> 1..m]
    BY <1>8
  <2>2. \A i, k \in first : place[i] = place[k] => i = k
    BY <1>7, <1>8
  <2>3. \A p \in 1..m : \E i \in first : place[i] = p
    BY <1>7, <1>8, <1>9
  <2>4. QED
    BY <2>1, <2>2, <2>3 DEF Bijection, Injection, Surjection, IsInjective
<1>11. IsFiniteSet(first) /\ IsFiniteSet(1..m) /\ Cardinality(1..m) = m
  <2>1. IsFiniteSet(first)
    BY <1>1, <1>8, FS_Subset
  <2>2. QED
    BY <1>9, <2>1, FS_Interval
<1>12. Cardinality(first) = m
  BY <1>10, <1>11, FS_Bijection DEF ExistsBijection
<1>13. QED
  BY <1>1, <1>2, <1>12 DEF n, m, first

LEMMA RowsAreTold ==
    ASSUME NEW some \in SUBSET DOMAIN Items
    PROVE  Import!RowsTold(Import!RowLines(some), some)
<1>1. Import!FirstRows(some) \in SUBSET some
  BY DEF Import!FirstRows
<1>2. QED
  BY <1>1, FirstRowsFill, SameCardinality DEF Import!RowsTold, Import!RowLines

(* As long as there is room, each of the files counted is among the first. *)
LEMMA FilesAreTold ==
    ASSUME NEW all \in SUBSET {f \in ImportFiles : f.item \in DOMAIN Items},
           NEW some \in SUBSET all
    PROVE  Import!FilesTold(Import!FileLines(all), some)
<1>1. IsFiniteSet(all) /\ IsFiniteSet(some) /\ Cardinality(some) <= Cardinality(all)
  <2>1. all \in SUBSET ImportFiles
    OBVIOUS
  <2>2. IsFiniteSet(all)
    BY <2>1, LegacyAssumption, FS_Subset
  <2>3. QED
    BY <2>2, FS_Subset
<1>2. Cardinality(all) \in Nat /\ MaxSamples \in Nat
  BY <1>1, FS_CardinalityType, LegacyAssumption
<1>3. ASSUME NEW f \in some, Cardinality(all) <= MaxSamples
      PROVE  f \in Import!FirstFiles(all)
  <2> DEFINE before == {g \in all : Import!Earlier(g, f)}
  <2>1. f.item \in Nat /\ f.slot \in Nat
    <3>1. DOMAIN Items = 1..Len(Items)
      BY LegacyAssumption
    <3>2. f \in ImportFiles /\ f.item \in DOMAIN Items
      OBVIOUS
    <3>3. QED
      BY <3>1, <3>2, LegacyAssumption
  <2>2. before \in SUBSET all /\ before # all
    BY <2>1 DEF Import!Earlier
  <2> HIDE DEF before
  <2>3. IsFiniteSet(before) /\ Cardinality(before) <= Cardinality(all)
        /\ Cardinality(before) # Cardinality(all)
    BY <1>1, <2>2, FS_Subset
  <2>4. Cardinality(before) \in Nat
    BY <2>3, FS_CardinalityType
  <2>5. Cardinality(before) < MaxSamples
    BY <1>2, <1>3, <2>3, <2>4
  <2>6. QED
    BY <2>5, SameCardinality DEF Import!FirstFiles, before
<1>4. Import!FileLines(all).count = Cardinality(all)
      /\ Import!FileLines(all).named = {f.path : f \in Import!FirstFiles(all)}
  BY SameCardinality DEF Import!FileLines
<1>5. QED
  BY <1>1, <1>3, <1>4, SameCardinality DEF Import!FilesTold

(* What an Article of a row is, and what it lacks, given the files that    *)
(* were not there.                                                         *)
Imported(i, article, lost) ==
    /\ article.collection \in DOMAIN sections
    /\ sections[article.collection].name = Import!CollectionName(Items[i])
    /\ article.date = Import!MapDate(Items[i])
    /\ article.words = {t \in {Items[i].text} : Import!KeepsWords(Items[i])}
    /\ Import!ToSet(article.media) = {f \in ImportFiles : f.item = i /\ f.named /\ f \notin lost}
    /\ \A k, l \in DOMAIN article.media : k < l => article.media[k].slot < article.media[l].slot

(* All rows before one have their Article, and no other row has any.       *)
WrittenUpTo(n, lost) ==
    /\ lost \in SUBSET {f \in ImportFiles : f.item \in DOMAIN Items /\ f.item < n}
    /\ \A i \in DOMAIN Items : i < n => \E u \in DOMAIN records : records[u].row = i
    /\ \A u \in DOMAIN records :
          records[u].row # 0 => records[u].row \in DOMAIN Items /\ Imported(records[u].row, records[u], lost)

VanishInv ==
    /\ run.pc \in {"collections", "articles"} =>
          \A name \in DOMAIN run.existing :
              run.existing[name] \in DOMAIN sections /\ sections[run.existing[name]].name = name
    /\ run.pc = "articles" =>
          /\ \A i \in DOMAIN Items : Import!CollectionName(Items[i]) \in DOMAIN run.existing
          /\ WrittenUpTo(run.next, run.missing)
    /\ run.pc = "done" =>
          \E lost : run.report = Import!ReportOn(lost) /\ WrittenUpTo(Len(Items) + 1, lost)

Grown ==
    /\ \A u \in DOMAIN sections : u \in DOMAIN sections' /\ sections'[u].name = sections[u].name
    /\ \A u \in DOMAIN records : u \in DOMAIN records' /\ records'[u] = records[u]
    /\ \A u \in DOMAIN records' : u \in DOMAIN records \/ records'[u].row = 0

LEMMA ImportedStays ==
    ASSUME \A u \in DOMAIN sections : u \in DOMAIN sections' /\ sections'[u].name = sections[u].name,
           NEW CONSTANT i, NEW CONSTANT article, NEW CONSTANT lost, Imported(i, article, lost)
    PROVE  Imported(i, article, lost)'
BY DEF Imported

LEMMA WrittenStaysWritten ==
    ASSUME Grown, NEW CONSTANT n, NEW CONSTANT lost, WrittenUpTo(n, lost)
    PROVE  WrittenUpTo(n, lost)'
<1>1. \A i \in DOMAIN Items : i < n => \E u \in DOMAIN records' : records'[u].row = i
  BY DEF WrittenUpTo, Grown
<1>2. ASSUME NEW u \in DOMAIN records', records'[u].row # 0
      PROVE  records'[u].row \in DOMAIN Items /\ Imported(records[u].row, records[u], lost)'
  <2>1. u \in DOMAIN records /\ records'[u] = records[u]
    BY <1>2 DEF Grown
  <2>2. PICK i, article : i = records[u].row /\ article = records[u]
    OBVIOUS
  <2>3. i \in DOMAIN Items /\ Imported(i, article, lost)
    BY <1>2, <2>1, <2>2 DEF WrittenUpTo
  <2>4. Imported(i, article, lost)'
    BY <2>3, ImportedStays DEF Grown
  <2>5. i = records'[u].row /\ article = records'[u]
    BY <2>1, <2>2
  <2>6. QED
    BY <2>3, <2>4, <2>5 DEF Imported
<1>3. QED
  BY <1>1, <1>2 DEF WrittenUpTo

(* The Collections by name: of two, the one that stands last.              *)
LEMMA ExistingIsTrue ==
    ASSUME IsSeq(sections), NEW name \in DOMAIN Import!Existing
    PROVE  /\ Import!Existing[name] \in DOMAIN sections
           /\ sections[Import!Existing[name]].name = name
<1> DEFINE bearers == {u \in DOMAIN sections : sections[u].name = name}
           distances == {Len(sections) - u : u \in bearers}
<1>1. DOMAIN sections = 1..Len(sections) /\ Len(sections) \in Nat
  BY DEF IsSeq
<1>2. name \in {c.name : c \in Import!ToSet(sections)}
  BY DEF Import!Existing
<1>3. \E u \in DOMAIN sections : sections[u].name = name
  BY <1>2 DEF Import!ToSet
<1>4. distances # {} /\ distances \subseteq Nat
  BY <1>1, <1>3
<1>5. PICK least \in distances : \A d \in distances : ~(<<d, least>> \in OpToRel(<, Nat))
  BY <1>4, NatLessThanWellFounded, WFMin
<1>6. \A d \in distances : least <= d
  <2> HIDE DEF distances
  <2>1. \A d \in distances : ~(d < least)
    BY <1>4, <1>5 DEF OpToRel
  <2>2. QED
    BY <1>4, <2>1
<1>7. PICK latest \in bearers : least = Len(sections) - latest
  BY <1>5
<1>8. \A w \in bearers : w <= latest
  <2> SUFFICES ASSUME NEW w \in bearers PROVE w <= latest
    OBVIOUS
  <2>1. least <= Len(sections) - w
    BY <1>6
  <2>2. QED
    BY <1>1, <1>7, <2>1
<1>9. \E u \in DOMAIN sections :
          /\ sections[u].name = name
          /\ \A w \in DOMAIN sections : sections[w].name = name => w <= u
  BY <1>7, <1>8
<1>10. Import!Existing[name] = CHOOSE u \in DOMAIN sections :
          /\ sections[u].name = name
          /\ \A w \in DOMAIN sections : sections[w].name = name => w <= u
  BY <1>2 DEF Import!Existing
<1>11. QED
  BY <1>9, <1>10

LEMMA VanishStarts == Import!ImportInit => VanishInv
BY DEF Import!ImportInit, Import!Idle, VanishInv

(* What does not touch the run keeps what it relies on, as long as records *)
(* and Collections only grow.                                              *)
LEMMA GrownKeeps ==
    ASSUME VanishInv, Grown, UNCHANGED run
    PROVE  VanishInv'
<1>1. run.pc \in {"collections", "articles"} =>
          \A name \in DOMAIN run.existing :
              run.existing[name] \in DOMAIN sections' /\ sections'[run.existing[name]].name = name
  BY DEF Grown, VanishInv
<1>2. ASSUME run.pc = "articles" PROVE WrittenUpTo(run.next, run.missing)'
  <2>1. PICK n, lost : n = run.next /\ lost = run.missing
    OBVIOUS
  <2>2. WrittenUpTo(n, lost)
    BY <1>2, <2>1 DEF VanishInv
  <2>3. WrittenUpTo(n, lost)'
    BY <2>2, WrittenStaysWritten
  <2>4. n = run'.next /\ lost = run'.missing
    BY <2>1
  <2>5. QED
    BY <2>3, <2>4 DEF WrittenUpTo, Imported
<1>3. ASSUME run.pc = "done"
      PROVE  \E lost : run'.report = Import!ReportOn(lost) /\ WrittenUpTo(Len(Items) + 1, lost)'
  <2>1. PICK lost : run.report = Import!ReportOn(lost) /\ WrittenUpTo(Len(Items) + 1, lost)
    BY <1>3 DEF VanishInv
  <2>2. WrittenUpTo(Len(Items) + 1, lost)'
    BY <2>1, WrittenStaysWritten
  <2>3. QED
    BY <2>1, <2>2
<1>4. QED
  BY <1>1, <1>2, <1>3 DEF VanishInv

LEMMA StartFindsAll ==
    ASSUME ImportInv, NEW root, Import!Start(root)
    PROVE  VanishInv'
<1>1. /\ UNCHANGED <<sections, records>>
      /\ run' = [pc |-> "collections", root |-> root, existing |-> Import!Existing]
  BY DEF Import!Start
<1>2. \A name \in DOMAIN Import!Existing :
          Import!Existing[name] \in DOMAIN sections /\ sections[Import!Existing[name]].name = name
  BY ExistingIsTrue DEF ImportInv
<1>3. QED
  BY <1>1, <1>2 DEF VanishInv

LEMMA CreatedIsFound ==
    ASSUME ImportInv, VanishInv, Import!CreateCollection
    PROVE  VanishInv'
<1>1. PICK name :
          /\ name \notin DOMAIN run.existing
          /\ sections' = Append(sections, [name |-> name, readable |-> TRUE, imported |-> TRUE])
          /\ run' = [run EXCEPT !.existing =
                        [other \in DOMAIN run.existing \union {name} |->
                            IF other = name THEN Len(sections') ELSE run.existing[other]]]
  BY DEF Import!CreateCollection, Import!Lacks
<1>2. run.pc = "collections" /\ DOMAIN run = {"pc", "root", "existing"}
  BY DEF Import!CreateCollection, ImportInv
<1> DEFINE n == Len(sections) + 1
<1>3. /\ IsSeq(sections') /\ DOMAIN sections = 1..Len(sections) /\ Len(sections) \in Nat
      /\ DOMAIN sections' = 1..n /\ sections'[n].name = name
      /\ \A u \in DOMAIN sections : sections'[u] = sections[u]
  BY <1>1, AppendIs DEF ImportInv
<1>4. Len(sections') = n
  BY <1>3 DEF IsSeq
<1>5. /\ run'.pc = "collections" /\ DOMAIN run'.existing = DOMAIN run.existing \union {name}
      /\ run'.existing[name] = n
      /\ \A other \in DOMAIN run.existing : run'.existing[other] = run.existing[other]
  BY <1>1, <1>2, <1>4
<1>6. \A other \in DOMAIN run.existing :
          run.existing[other] \in DOMAIN sections /\ sections[run.existing[other]].name = other
  BY <1>2 DEF VanishInv
<1>7. \A other \in DOMAIN run'.existing :
          run'.existing[other] \in DOMAIN sections' /\ sections'[run'.existing[other]].name = other
  BY <1>3, <1>5, <1>6
<1>8. QED
  BY <1>5, <1>7 DEF VanishInv

LEMMA PlanFindsAll ==
    ASSUME ImportInv, VanishInv, Import!Plan
    PROVE  VanishInv'
<1>1. /\ UNCHANGED <<sections, records>> /\ run.pc = "collections"
      /\ run' = [pc |-> "articles", root |-> run.root, existing |-> run.existing,
                 next |-> 1, missing |-> {}]
      /\ Import!ToSet(Import!CollectionNames) \subseteq DOMAIN run.existing
  BY DEF Import!Plan
<1>2. DOMAIN Items = 1..Len(Items) /\ Len(Items) \in Nat
  BY LegacyAssumption
<1>3. ASSUME NEW i \in DOMAIN Items
      PROVE  Import!CollectionName(Items[i]) \in DOMAIN run.existing /\ ~(i < 1)
  <2>1. i \in DOMAIN Import!CollectionNames /\ Import!CollectionNames[i] = Import!CollectionName(Items[i])
    BY <1>2 DEF Import!CollectionNames
  <2>2. Import!CollectionNames[i] \in Import!ToSet(Import!CollectionNames)
    BY <2>1 DEF Import!ToSet
  <2>3. QED
    BY <1>1, <1>2, <2>1, <2>2
<1>4. \A u \in DOMAIN records' : records'[u].row = 0
  BY <1>1 DEF ImportInv
<1>5. WrittenUpTo(run.next, run.missing)'
  BY <1>1, <1>3, <1>4 DEF WrittenUpTo
<1>6. QED
  BY <1>1, <1>3, <1>5 DEF VanishInv

(* What the run writes of a row lacks what it then counts as missing.      *)
LEMMA WrittenIsImported ==
    ASSUME NEW i \in DOMAIN Items, NEW existing, NEW root, NEW lost,
           lost \in SUBSET {f \in ImportFiles : f.item < i},
           existing[Import!CollectionName(Items[i])] \in DOMAIN sections,
           sections[existing[Import!CollectionName(Items[i])]].name = Import!CollectionName(Items[i])
    PROVE  Imported(i, Import!ArticleOf(i, existing, root), lost \union Import!MissingOf(i, root))
<1> DEFINE placed == {f \in ImportFiles : f.item = i /\ f.path \in root /\ f.named}
           article == Import!ArticleOf(i, existing, root)
<1>1. /\ article.collection = existing[Import!CollectionName(Items[i])]
      /\ article.date = Import!MapDate(Items[i])
      /\ article.words = {t \in {Items[i].text} : Import!KeepsWords(Items[i])}
      /\ article.media = Import!InSlotOrder(placed)
  BY DEF Import!ArticleOf
<1> HIDE DEF article
<1>2. placed \in SUBSET ImportFiles
  OBVIOUS
<1>3. /\ IsFiniteSet(placed)
      /\ \A f \in placed : f.slot \in Nat
      /\ \A f, g \in placed : f.slot = g.slot => f = g
  BY <1>2, FS_Subset, LegacyAssumption
<1>4. /\ Import!ToSet(article.media) = placed
      /\ \A k, l \in DOMAIN article.media : k < l => article.media[k].slot < article.media[l].slot
  <2> HIDE DEF placed
  <2>1. QED
    BY <1>1, <1>3, InSlotOrderIs
<1>5. placed = {f \in ImportFiles : f.item = i /\ f.named /\ f \notin lost \union Import!MissingOf(i, root)}
  <2>1. i \in Nat
    BY LegacyAssumption
  <2>2. \A f \in lost : f.item # i
    BY <2>1
  <2>3. QED
    BY <2>2 DEF Import!MissingOf
<1>6. QED
  BY <1>1, <1>4, <1>5 DEF Imported, article

LEMMA WrittenStays ==
    ASSUME ImportInv, VanishInv, Import!WriteArticle
    PROVE  VanishInv'
<1> DEFINE n == Len(records) + 1
<1>1. PICK at, new, before, lost :
          /\ at = run.next /\ new = Import!ArticleOf(run.next, run.existing, run.root)
          /\ before = run.missing /\ lost = run.missing \union Import!MissingOf(run.next, run.root)
  OBVIOUS
<1>2. /\ run.pc = "articles" /\ records' = Append(records, new) /\ UNCHANGED sections
      /\ at <= Len(Items)
      /\ run' = [run EXCEPT !.next = at + 1, !.missing = lost]
  BY <1>1 DEF Import!WriteArticle
<1>3. DOMAIN run = {"pc", "root", "existing", "next", "missing"} /\ at \in Nat \ {0}
  BY <1>1, <1>2 DEF ImportInv
<1>4. DOMAIN Items = 1..Len(Items) /\ Len(Items) \in Nat /\ at \in DOMAIN Items
  BY <1>2, <1>3, LegacyAssumption
<1>5. WrittenUpTo(at, before)
  BY <1>1, <1>2 DEF VanishInv
<1>6. before \in SUBSET {f \in ImportFiles : f.item \in DOMAIN Items /\ f.item < at}
  BY <1>5 DEF WrittenUpTo
<1>7. Imported(at, new, lost)
  <2>1. /\ run.existing[Import!CollectionName(Items[at])] \in DOMAIN sections
        /\ sections[run.existing[Import!CollectionName(Items[at])]].name = Import!CollectionName(Items[at])
    BY <1>2, <1>4 DEF VanishInv
  <2>2. before \in SUBSET {f \in ImportFiles : f.item < at}
    BY <1>6
  <2>3. QED
    BY <1>1, <1>4, <2>1, <2>2, WrittenIsImported
<1>8. new.row = at
  BY <1>1 DEF Import!ArticleOf
<1>9. /\ DOMAIN records = 1..Len(records) /\ Len(records) \in Nat
      /\ DOMAIN records' = 1..n /\ records'[n] = new
      /\ \A u \in DOMAIN records : records'[u] = records[u]
  BY <1>2, AppendIs DEF ImportInv
<1>10. /\ run'.pc = "articles" /\ run'.existing = run.existing
       /\ run'.next = at + 1 /\ run'.missing = lost
  BY <1>2, <1>3
<1>11. lost \in SUBSET {f \in ImportFiles : f.item \in DOMAIN Items /\ f.item < at + 1}
  <2>1. \A f \in lost : f \in before \/ (f \in ImportFiles /\ f.item = at)
    BY <1>1 DEF Import!MissingOf
  <2>2. ASSUME NEW f \in lost
        PROVE  f \in ImportFiles /\ f.item \in DOMAIN Items /\ f.item < at + 1
    <3>1. f \in ImportFiles /\ f.item \in DOMAIN Items /\ (f.item < at \/ f.item = at)
      BY <1>4, <1>6, <2>1
    <3>2. f.item \in Nat
      BY <1>4, <3>1
    <3>3. QED
      BY <1>3, <3>1, <3>2
  <2>3. QED
    BY <2>2
<1>12. \A i \in DOMAIN Items : i < at + 1 => \E u \in DOMAIN records' : records'[u].row = i
  <2>1. ASSUME NEW i \in DOMAIN Items, i < at + 1 PROVE \E u \in DOMAIN records' : records'[u].row = i
    <3>1. CASE i = at
      BY <1>8, <1>9, <3>1
    <3>2. CASE i # at
      <4>1. i < at
        BY <1>3, <1>4, <2>1, <3>2
      <4>2. PICK u \in DOMAIN records : records[u].row = i
        BY <1>5, <4>1 DEF WrittenUpTo
      <4>3. QED
        BY <1>9, <4>2
    <3>3. QED
      BY <3>1, <3>2
  <2>2. QED
    BY <2>1
<1>13. ASSUME NEW u \in DOMAIN records', records'[u].row # 0
       PROVE  records'[u].row \in DOMAIN Items /\ Imported(records'[u].row, records'[u], lost)
  <2>1. CASE u = n
    BY <1>4, <1>7, <1>8, <1>9, <2>1
  <2>2. CASE u \in DOMAIN records
    <3>1. /\ records'[u] = records[u] /\ records[u].row \in DOMAIN Items
          /\ Imported(records[u].row, records[u], before)
      BY <1>5, <1>9, <1>13, <2>2 DEF WrittenUpTo
    <3>2. records[u].row < at
      BY <1>1, <1>2, <2>2 DEF ImportInv
    <3>3. \A f \in ImportFiles : f.item = records[u].row => (f \in lost <=> f \in before)
      <4>1. records[u].row # at
        BY <1>3, <1>4, <3>1, <3>2
      <4>2. QED
        BY <1>1, <4>1 DEF Import!MissingOf
    <3>4. Imported(records[u].row, records[u], lost)
      BY <3>1, <3>3 DEF Imported
    <3>5. QED
      BY <3>1, <3>4
  <2>3. QED
    BY <1>9, <2>1, <2>2
<1>14. WrittenUpTo(run.next, run.missing)'
  <2>1. ASSUME NEW u \in DOMAIN records', records'[u].row # 0
        PROVE  Imported(records[u].row, records[u], run.missing)'
    BY <1>2, <1>10, <1>13, <2>1 DEF Imported
  <2>2. QED
    BY <1>10, <1>11, <1>12, <1>13, <2>1 DEF WrittenUpTo
<1>15. QED
  BY <1>2, <1>10, <1>14 DEF VanishInv

LEMMA ReportSaysIt ==
    ASSUME ImportInv, VanishInv, Import!Report
    PROVE  VanishInv'
<1>1. /\ UNCHANGED <<sections, records>> /\ run.pc = "articles" /\ run.next > Len(Items)
      /\ run' = [pc |-> "done", report |-> Import!ReportOn(run.missing)]
  BY DEF Import!Report
<1>2. run.next \in Nat /\ DOMAIN Items = 1..Len(Items) /\ Len(Items) \in Nat
  BY <1>1, LegacyAssumption DEF ImportInv
<1>3. PICK lost : lost = run.missing
  OBVIOUS
<1>4. WrittenUpTo(run.next, lost)
  BY <1>1, <1>3 DEF VanishInv
<1>5. \A i \in DOMAIN Items : i < run.next /\ i < Len(Items) + 1
  BY <1>1, <1>2
<1>6. WrittenUpTo(Len(Items) + 1, lost)
  BY <1>4, <1>5 DEF WrittenUpTo
<1>7. Grown
  BY <1>1 DEF Grown
<1>8. WrittenUpTo(Len(Items) + 1, lost)'
  BY <1>6, <1>7, WrittenStaysWritten
<1>9. QED
  BY <1>1, <1>3, <1>8 DEF VanishInv

LEMMA VanishStep == ImportInv /\ VanishInv /\ [Import!ImportNext]_importVars => VanishInv'
<1> SUFFICES ASSUME ImportInv, VanishInv, [Import!ImportNext]_importVars PROVE VanishInv'
  OBVIOUS
<1>1. ASSUME UNCHANGED importVars PROVE VanishInv'
  <2>1. Grown /\ UNCHANGED run
    BY <1>1 DEF importVars, Grown
  <2>2. QED
    BY <2>1, GrownKeeps
<1>2. ASSUME NEW root, Import!DryRun(root) PROVE VanishInv'
  BY <1>2 DEF Import!DryRun, VanishInv
<1>3. CASE Import!Die
  BY <1>3 DEF Import!Die, Import!Idle, VanishInv
<1>4. CASE Import!Unmount
  <2>1. UNCHANGED <<sections, records>> /\ run.pc = "articles" /\ run' = [run EXCEPT !.root = {}]
    BY <1>4 DEF Import!Unmount
  <2>2. /\ run'.pc = "articles" /\ run'.existing = run.existing
        /\ run'.next = run.next /\ run'.missing = run.missing
    BY <2>1 DEF ImportInv
  <2>3. Grown
    BY <2>1 DEF Grown
  <2>4. PICK n, lost : n = run.next /\ lost = run.missing
    OBVIOUS
  <2>5. WrittenUpTo(run.next, run.missing)'
    <3>1. WrittenUpTo(n, lost)'
      BY <2>1, <2>3, <2>4, WrittenStaysWritten DEF VanishInv
    <3>2. QED
      BY <2>2, <2>4, <3>1 DEF WrittenUpTo, Imported
  <2>6. \A name \in DOMAIN run'.existing :
            run'.existing[name] \in DOMAIN sections' /\ sections'[run'.existing[name]].name = name
    BY <2>1, <2>2 DEF VanishInv
  <2>7. \A i \in DOMAIN Items : Import!CollectionName(Items[i]) \in DOMAIN run'.existing
    BY <2>1, <2>2 DEF VanishInv
  <2>8. QED
    BY <2>2, <2>5, <2>6, <2>7 DEF VanishInv
<1>5. ASSUME NEW u \in DOMAIN sections, Import!Damage(u) PROVE VanishInv'
  <2>1. /\ UNCHANGED <<records, run>>
        /\ sections' = [sections EXCEPT ![u] = [sections[u] EXCEPT !.readable = ~sections[u].readable]]
    BY <1>5 DEF Import!Damage
  <2>2. IsSeq(sections') /\ DOMAIN sections' = DOMAIN sections
    BY <2>1, ReplaceIs DEF ImportInv
  <2>3. \A w \in DOMAIN sections : sections'[w].name = sections[w].name
    BY <2>1
  <2>4. QED
    BY <2>1, <2>2, <2>3, GrownKeeps DEF Grown
<1>6. CASE Import!Catalog
  <2>1. ASSUME NEW s, IsSeq(s), NEW e, NEW t, t = Append(s, e)
        PROVE  /\ \A u \in DOMAIN s : u \in DOMAIN t /\ t[u] = s[u]
               /\ \A u \in DOMAIN t : u \in DOMAIN s \/ t[u] = e
    BY <2>1, AppendIs
  <2>2. UNCHANGED run
    BY <1>6 DEF Import!Catalog
  <2>3. ASSUME NEW new, UNCHANGED records, sections' = Append(sections, new) PROVE Grown
    BY <2>1, <2>3 DEF ImportInv, Grown
  <2>4. ASSUME NEW new, new.row = 0, UNCHANGED sections, records' = Append(records, new) PROVE Grown
    <3>1. \A u \in DOMAIN records' : u \in DOMAIN records \/ records'[u].row = 0
      BY <2>1, <2>4 DEF ImportInv
    <3>2. \A u \in DOMAIN records : u \in DOMAIN records' /\ records'[u] = records[u]
      BY <2>1, <2>4 DEF ImportInv
    <3>3. QED
      BY <2>4, <3>1, <3>2 DEF Grown
  <2>5. Grown
    <3>1. CASE \E u \in DOMAIN sections :
                  /\ records' = Append(records, [row |-> 0, collection |-> u, date |-> Import!Undated,
                                                words |-> {}, media |-> <<>>])
                  /\ UNCHANGED sections
      BY <2>4, <3>1
    <3>2. QED
      BY <1>6, <2>3, <3>1 DEF Import!Catalog
  <2>6. QED
    BY <2>2, <2>5, GrownKeeps
<1>7. QED
  BY <1>1, <1>2, <1>3, <1>4, <1>5, <1>6, StartFindsAll, CreatedIsFound, PlanFindsAll, WrittenStays,
     ReportSaysIt
  DEF Import!ImportNext

(* Once the report is out, it is of what stands.                           *)
LEMMA ReportIsTrue == VanishInv => NothingVanishes
<1> SUFFICES ASSUME VanishInv, run.pc = "done"
             PROVE  /\ \A i \in DOMAIN Items : \E article \in Import!OfRow(i) : Import!Filed(i, article)
                    /\ Import!RowsTold(run.report.unread, Import!KeptInWords)
                    /\ Import!RowsTold(run.report.conflicts, Import!Contradicted)
                    /\ Import!FilesTold(run.report.missing, {f \in Import!LackingFiles : f.named})
                    /\ Import!FilesTold(run.report.unnamed, {f \in Import!LackingFiles : ~f.named})
                    /\ run.report.missing.count <= Import!Cardinality(Import!LackingFiles)
  BY DEF NothingVanishes, Import!NothingVanishes
<1>1. PICK lost : run.report = Import!ReportOn(lost) /\ WrittenUpTo(Len(Items) + 1, lost)
  BY DEF VanishInv
<1> DEFINE nameless == {f \in ImportFiles : f.item \in DOMAIN Items /\ ~f.named}
           worded == {i \in DOMAIN Items : Import!KeepsWords(Items[i])}
           torn == {i \in DOMAIN Items : Import!ConflictsWithColumns(Items[i])}
<1>2. /\ run.report.missing = Import!FileLines(lost)
      /\ run.report.unnamed = Import!FileLines(nameless)
      /\ run.report.unread = Import!RowLines(worded)
      /\ run.report.conflicts = Import!RowLines(torn)
  BY <1>1 DEF Import!ReportOn
<1>3. DOMAIN Items = 1..Len(Items) /\ Len(Items) \in Nat
  BY LegacyAssumption
<1>4. ASSUME NEW i \in DOMAIN Items
      PROVE  /\ Import!OfRow(i) # {}
             /\ \A article \in Import!OfRow(i) : Imported(i, article, lost)
  <2>1. i < Len(Items) + 1 /\ i # 0
    BY <1>3
  <2>2. PICK u \in DOMAIN records : records[u].row = i
    BY <1>1, <2>1 DEF WrittenUpTo
  <2>3. records[u] \in Import!OfRow(i)
    BY <2>2 DEF Import!OfRow, Import!ToSet
  <2>4. ASSUME NEW article \in Import!OfRow(i) PROVE Imported(i, article, lost)
    <3>1. PICK w \in DOMAIN records : records[w] = article /\ article.row = i
      BY DEF Import!OfRow, Import!ToSet
    <3>2. QED
      BY <1>1, <2>1, <3>1 DEF WrittenUpTo
  <2>5. QED
    BY <2>3, <2>4
<1>5. ASSUME NEW i \in DOMAIN Items PROVE \E article \in Import!OfRow(i) : Import!Filed(i, article)
  <2>1. PICK article \in Import!OfRow(i) : Imported(i, article, lost)
    BY <1>4
  <2>2. Items[i].text.shape # "blank" =>
            article.date = Import!EdtfOf(Items[i].text) \/ article.words = {Items[i].text}
    BY <2>1 DEF Imported, Import!MapDate, Import!KeepsWords
  <2>3. QED
    BY <2>1, <2>2 DEF Imported, Import!Filed
<1>6. Import!KeptInWords = worded
  <2>1. ASSUME NEW i \in DOMAIN Items
        PROVE  (\E article \in Import!OfRow(i) : article.words # {}) <=> Import!KeepsWords(Items[i])
    BY <1>4 DEF Imported
  <2>2. QED
    BY <2>1 DEF Import!KeptInWords
<1>7. Import!Contradicted = torn
  <2>1. ASSUME NEW i \in DOMAIN Items
        PROVE  (\E article \in Import!OfRow(i) :
                  \/ Items[i].month \in 1..12 /\ article.date.month # Items[i].month
                  \/ Items[i].day \in 1..31 /\ article.date.day # Items[i].day)
               <=> Import!ConflictsWithColumns(Items[i])
    <3>1. \A article \in Import!OfRow(i) : article.date = Import!MapDate(Items[i])
      BY <1>4 DEF Imported
    <3>2. Import!ConflictsWithColumns(Items[i]) <=>
              \/ Items[i].month \in 1..12 /\ Import!MapDate(Items[i]).month # Items[i].month
              \/ Items[i].day \in 1..31 /\ Import!MapDate(Items[i]).day # Items[i].day
      BY DEF Import!ConflictsWithColumns, Import!MonthOf, Import!DayOf, Import!TwoDigits
    <3>3. QED
      BY <1>4, <3>1, <3>2
  <2>2. QED
    BY <2>1 DEF Import!Contradicted
<1>8. Import!LackingFiles = {f \in ImportFiles : f.item \in DOMAIN Items /\ (~f.named \/ f \in lost)}
  <2>1. ASSUME NEW f \in ImportFiles, f.item \in DOMAIN Items
        PROVE  (\A article \in Import!OfRow(f.item) : f \notin Import!ToSet(article.media))
                  <=> ~f.named \/ f \in lost
    <3>1. \A article \in Import!OfRow(f.item) :
              f \in Import!ToSet(article.media) <=> f.named /\ f \notin lost
      BY <1>4, <2>1 DEF Imported
    <3>2. QED
      BY <1>4, <2>1, <3>1
  <2>2. QED
    BY <2>1 DEF Import!LackingFiles
<1>9. lost \in SUBSET {f \in ImportFiles : f.item \in DOMAIN Items}
  BY <1>1 DEF WrittenUpTo
<1>10. /\ {f \in Import!LackingFiles : f.named} \in SUBSET lost
       /\ {f \in Import!LackingFiles : ~f.named} \in SUBSET nameless
       /\ lost \in SUBSET Import!LackingFiles
  BY <1>8, <1>9
<1>11. Import!FileLines(lost).count <= Import!Cardinality(Import!LackingFiles)
  <2>1. Import!LackingFiles \in SUBSET ImportFiles
    BY <1>8
  <2>2. IsFiniteSet(Import!LackingFiles)
    BY <2>1, LegacyAssumption, FS_Subset
  <2>3. Cardinality(lost) <= Cardinality(Import!LackingFiles)
    BY <1>10, <2>2, FS_Subset
  <2>4. QED
    BY <2>3, SameCardinality DEF Import!FileLines
<1>12. /\ Import!FilesTold(Import!FileLines(lost), {f \in Import!LackingFiles : f.named})
       /\ Import!FilesTold(Import!FileLines(nameless), {f \in Import!LackingFiles : ~f.named})
  <2>1. nameless \in SUBSET {f \in ImportFiles : f.item \in DOMAIN Items}
    OBVIOUS
  <2> HIDE DEF nameless
  <2>2. QED
    BY <1>9, <1>10, <2>1, FilesAreTold
<1>13. /\ Import!RowsTold(Import!RowLines(worded), worded)
       /\ Import!RowsTold(Import!RowLines(torn), torn)
  <2>1. worded \in SUBSET DOMAIN Items /\ torn \in SUBSET DOMAIN Items
    OBVIOUS
  <2> HIDE DEF worded, torn
  <2>2. QED
    BY <2>1, RowsAreTold
<1> HIDE DEF nameless, worded, torn
<1>14. QED
  BY <1>2, <1>5, <1>6, <1>7, <1>11, <1>12, <1>13

(***************************************************************************)
(* A run that ended lost nothing it did not report: each row has its       *)
(* Article, and what the Articles lack the report counts, and names as far *)
(* as it names any (legacy.plan, Report.lines, Command._write).            *)
(***************************************************************************)
THEOREM NothingVanishesHolds == AroundSpec => []NothingVanishes
<1>1. AroundInit => ImportInv /\ VanishInv
  BY ImportStarts, VanishStarts DEF AroundInit
<1>2. ImportInv /\ VanishInv /\ [AroundNext]_aroundVars => ImportInv' /\ VanishInv'
  <2> SUFFICES ASSUME ImportInv, VanishInv, [AroundNext]_aroundVars PROVE ImportInv' /\ VanishInv'
    OBVIOUS
  <2>1. Import!ImportNext \/ UNCHANGED importVars
    BY DEF AroundNext, aroundVars, OfTexts
  <2>2. ImportInv'
    BY <2>1, ImportStep DEF importVars, ImportInv, ImportedOnce, Import!ImportedOnce
  <2>3. QED
    BY <2>1, <2>2, VanishStep
<1>3. VanishInv => NothingVanishes
  BY ReportIsTrue
<1>4. QED
  BY <1>1, <1>2, <1>3, PTL DEF AroundSpec
=============================================================================
