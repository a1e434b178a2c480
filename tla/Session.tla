------------------------------ MODULE Session ------------------------------
(***************************************************************************)
(* The login of one browser (app/web/auth_views.py, viewers.py, oidc.py,   *)
(* keycloak.py): its cookies, the requests it has under way and the realm  *)
(* they ask.  A request carries the cookies of the moment it was sent and  *)
(* its answer sets or deletes them when it arrives, in any order.          *)
(*                                                                         *)
(* The realm signs access tokens with its current key; the worker caches   *)
(* what the realm last published and asks again for a key it does not      *)
(* know.  A refresh token stands for its login, as rotation of refresh     *)
(* tokens stays off (ADR 0018, "Realm contract").                          *)
(***************************************************************************)
EXTENDS Naturals, FiniteSets

CONSTANTS
    Requests,     \* requests the browser may have under way at once
    Logins,       \* logins that may be made
    Keys,         \* signing keys of the realm, 1 and on
    MaxSends,     \* bound: requests in all
    MaxMints,     \* bound: access tokens in all
    MaxTroubles,  \* bound: failures, restarts, rotations and ended logins in all
    Nil

VARIABLES
    realm,     \* up, its key, the keys it publishes, the logins made and the live ones
    cache,     \* the worker: discovery document seen, the keys it holds or Nil
    expired,   \* the access tokens whose time is over
    minted,    \* how many access tokens the realm signed
    jar,       \* the browser's cookies: access and refresh token, login state
    request,   \* the requests under way
    sends, troubles

sessionVars == <<realm, cache, expired, minted, jar, request, sends, troubles>>

Tokens == [no : 1..MaxMints, login : Logins, key : Keys]
Token(login) == [no |-> minted + 1, login |-> login, key |-> realm.key]

NoRequest == [pc |-> "none"]

SessionInit ==
    /\ realm = [up |-> TRUE, key |-> 1, published |-> {1}, made |-> {}, live |-> {}]
    /\ cache = [found |-> FALSE, keys |-> Nil]
    /\ expired = {}
    /\ minted = 0
    /\ jar = [access |-> Nil, refresh |-> Nil, state |-> Nil]
    /\ request = [r \in Requests |-> NoRequest]
    /\ sends = 0
    /\ troubles = 0

At(r, pc) == request[r].pc = pc
GoesTo(r, j) == request' = [request EXCEPT ![r] = j]
Sends(r, j) == At(r, "none") /\ sends < MaxSends /\ sends' = sends + 1 /\ GoesTo(r, j)

(***************************************************************************)
(* What a request ends with: a viewer that is signed in or public, and     *)
(* what its answer does to the cookies: "keep" or "delete" them, or a      *)
(* token to set.                                                           *)
(***************************************************************************)
Answers(r, viewer, cookies) ==
    GoesTo(r, [pc |-> "answer", for |-> request[r].for, sent |-> request[r].sent,
               viewer |-> viewer, cookies |-> cookies, calm |-> request[r].calm])

(***************************************************************************)
(* _endpoint: every use of the realm needs its discovery document, which   *)
(* the worker fetches once and keeps.                                      *)
(***************************************************************************)
Reached == cache.found \/ realm.up

(***************************************************************************)
(* The browser sends a request for a page, or the logout.  `calm' says     *)
(* that the realm was up and the request's login live all along.           *)
(***************************************************************************)
Calm == realm.up /\ jar.refresh \in realm.live

Starts(for) == [pc |-> "start", for |-> for, sent |-> jar, calm |-> Calm]

Send(r, for) ==
    /\ Sends(r, Starts(for))
    /\ UNCHANGED <<realm, cache, expired, minted, jar, troubles>>

(* Something befalls the realm or a token, and these requests feel it.     *)
Felt(by) ==
    [r \in Requests |-> IF "calm" \in DOMAIN request[r] /\ by[r]
                        THEN [request[r] EXCEPT !.calm = FALSE] ELSE request[r]]

Of(r, login) == "sent" \in DOMAIN request[r] /\ request[r].sent.refresh = login
Fresh(r) == "token" \in DOMAIN request[r] /\ request[r].then # "access"

Verifies(j, token, then) ==
    [pc |-> "verify", for |-> j.for, sent |-> j.sent, calm |-> j.calm,
     token |-> token, then |-> then]

(***************************************************************************)
(* viewer_of: the access cookie is checked first; without one, and when it *)
(* is refused, the refresh cookie is tried.                                *)
(***************************************************************************)
Resolve(r) ==
    LET j == request[r] IN
    /\ At(r, "start") /\ j.for = "page"
    /\ CASE j.sent.access # Nil -> GoesTo(r, Verifies(j, j.sent.access, "access"))
         [] j.sent.access = Nil /\ j.sent.refresh # Nil ->
              GoesTo(r, [j EXCEPT !.pc = "refresh"])
         [] OTHER -> Answers(r, "public", <<"keep">>)
    /\ UNCHANGED <<realm, cache, expired, minted, jar, sends, troubles>>

(***************************************************************************)
(* What a request does with the answer of verify_access: to an access      *)
(* cookie, to the tokens of a refresh, of a code exchange, of a logout.    *)
(***************************************************************************)
AcceptedWithoutRevoking(r) ==
    LET j == request[r] IN
    IF j.then \in {"refresh", "code"} THEN Answers(r, "signed in", <<"set", j.token>>)
    ELSE Answers(r, "signed in", IF j.then = "access" THEN <<"keep">> ELSE <<"delete">>)

Accepted(r) ==
    LET j == request[r] IN
    CASE j.then = "access" -> Answers(r, "signed in", <<"keep">>)
      [] j.then \in {"refresh", "code"} -> Answers(r, "signed in", <<"set", j.token>>)
      [] j.then = "logout" -> GoesTo(r, [j EXCEPT !.pc = "revoke"])

Refused(r) ==
    LET j == request[r] IN
    CASE j.then = "access" /\ j.sent.refresh # Nil ->
             GoesTo(r, [pc |-> "refresh", for |-> j.for, sent |-> j.sent, calm |-> j.calm])
      [] j.then = "access" /\ j.sent.refresh = Nil -> Answers(r, "public", <<"keep">>)
      [] j.then \in {"refresh", "logout"} -> Answers(r, "public", <<"delete">>)
      [] j.then = "code" -> Answers(r, "public", <<"keep">>)

Decides(r, keys) ==
    LET token == request[r].token IN
    IF token.key \in keys /\ token \notin expired THEN Accepted(r) ELSE Refused(r)

(***************************************************************************)
(* verify_access: the cached keys, unless they lack the token's; then what *)
(* the realm publishes now, remembered if it answers.                      *)
(***************************************************************************)
KnowsSome(r) == cache.keys # Nil

Knows(r) == cache.keys # Nil /\ request[r].token.key \in cache.keys

VerifyCached(r) ==
    /\ At(r, "verify") /\ Reached /\ Knows(r)
    /\ cache' = [cache EXCEPT !.found = TRUE]
    /\ Decides(r, cache.keys)
    /\ UNCHANGED <<realm, expired, minted, jar, sends, troubles>>

AskKeys(r) ==
    /\ At(r, "verify") /\ realm.up /\ ~Knows(r)
    /\ cache' = [cache EXCEPT !.found = TRUE]
    /\ GoesTo(r, [pc |-> "keys", for |-> request[r].for, sent |-> request[r].sent,
                  calm |-> request[r].calm, token |-> request[r].token,
                  then |-> request[r].then, keys |-> realm.published])
    /\ UNCHANGED <<realm, expired, minted, jar, sends, troubles>>

TakeKeys(r) ==
    /\ At(r, "keys")
    /\ cache' = [cache EXCEPT !.keys = request[r].keys]
    /\ Decides(r, request[r].keys)
    /\ UNCHANGED <<realm, expired, minted, jar, sends, troubles>>

Unreached(r) ==
    /\ At(r, "verify") /\ ~realm.up /\ ~(cache.found /\ Knows(r))
    /\ Refused(r)
    /\ UNCHANGED <<realm, cache, expired, minted, jar, sends, troubles>>

(***************************************************************************)
(* refresh: new tokens of a login the realm still keeps, checked like any  *)
(* other; no answer and a refusal are one.                                 *)
(***************************************************************************)
RefreshFor(r) == IF request[r].for = "logout" THEN "logout" ELSE "refresh"

Refresh(r) ==
    LET j == request[r] IN
    /\ At(r, "refresh") \/ (At(r, "start") /\ j.for = "logout" /\ j.sent.refresh # Nil)
    /\ IF realm.up /\ j.sent.refresh \in realm.live
       THEN /\ minted < MaxMints
            /\ minted' = minted + 1
            /\ cache' = [cache EXCEPT !.found = TRUE]
            /\ GoesTo(r, Verifies(j, Token(j.sent.refresh), RefreshFor(r)))
       ELSE /\ Answers(r, "public", <<"delete">>)
            /\ cache' = [cache EXCEPT !.found = @ \/ realm.up]
            /\ minted' = minted
    /\ UNCHANGED <<realm, expired, jar, sends, troubles>>

(***************************************************************************)
(* logout_url: after the refresh the offline token is revoked, as far as   *)
(* the realm can be reached, and the cookies go either way.                *)
(***************************************************************************)
LogoutAlone(r) ==
    /\ At(r, "start") /\ request[r].for = "logout" /\ request[r].sent.refresh = Nil
    /\ Answers(r, "public", <<"delete">>)
    /\ UNCHANGED <<realm, cache, expired, minted, jar, sends, troubles>>

Revoke(r) ==
    LET login == request[r].token.login IN
    /\ At(r, "revoke")
    /\ realm' = IF realm.up THEN [realm EXCEPT !.live = @ \ {login}] ELSE realm
    /\ request' = [Felt([o \in Requests |-> realm.up /\ Of(o, login)]) EXCEPT ![r] =
           [pc |-> "answer", for |-> "logout", sent |-> @.sent, viewer |-> "public",
            cookies |-> <<"delete">>, calm |-> request[r].calm]]
    /\ UNCHANGED <<cache, expired, minted, jar, sends, troubles>>

(***************************************************************************)
(* /login remembers a state in its cookie and sends the browser to the     *)
(* realm; the callback brings the state and a code back.  Another tab's    *)
(* login may have replaced the cookie: then the login starts over.         *)
(***************************************************************************)
StartLogin(r) ==
    /\ At(r, "none") \/ At(r, "restart")
    /\ sends < MaxSends /\ sends' = sends + 1
    /\ IF Reached
       THEN /\ jar' = [jar EXCEPT !.state = sends']
            /\ cache' = [cache EXCEPT !.found = TRUE]
            /\ GoesTo(r, [pc |-> "away", state |-> sends'])
       ELSE GoesTo(r, NoRequest) /\ UNCHANGED <<jar, cache>>
    /\ UNCHANGED <<realm, expired, minted, troubles>>

GivesUp(r) ==
    /\ At(r, "away") \/ At(r, "restart")
    /\ GoesTo(r, NoRequest)
    /\ UNCHANGED <<realm, cache, expired, minted, jar, sends, troubles>>

Callback(r) ==
    LET j == request[r] IN
    /\ At(r, "away") /\ realm.up
    /\ CASE jar.state = Nil -> GoesTo(r, NoRequest)
         [] jar.state # Nil /\ jar.state # j.state -> GoesTo(r, [pc |-> "restart"])
         [] jar.state = j.state ->
              GoesTo(r, [pc |-> "code", for |-> "callback", sent |-> jar, calm |-> FALSE])
    /\ UNCHANGED <<realm, cache, expired, minted, jar, sends, troubles>>

(***************************************************************************)
(* fetch_tokens: the code becomes a login of the realm and its tokens.     *)
(***************************************************************************)
FetchTokens(r) ==
    /\ At(r, "code")
    /\ IF realm.up
       THEN \E l \in Logins \ realm.made :
            /\ minted < MaxMints
            /\ minted' = minted + 1
            /\ realm' = [realm EXCEPT !.made = @ \union {l}, !.live = @ \union {l}]
            /\ cache' = [cache EXCEPT !.found = TRUE]
            /\ GoesTo(r, Verifies(request[r], Token(l), "code"))
       ELSE /\ Answers(r, "public", <<"keep">>)
            /\ UNCHANGED <<realm, cache, minted>>
    /\ UNCHANGED <<expired, jar, sends, troubles>>

(***************************************************************************)
(* The answer arrives.  TokenCookieMiddleware writes the outcome of a      *)
(* refresh; the callback and the logout set or delete the cookies on their *)
(* own, and a login that came through drops its state.                     *)
(***************************************************************************)
SetCookies(j) ==
    CASE j.cookies = <<"keep">> -> jar
      [] j.cookies = <<"delete">> -> [jar EXCEPT !.access = Nil, !.refresh = Nil]
      [] j.cookies[1] = "set" ->
           [access |-> j.cookies[2], refresh |-> j.cookies[2].login,
            state |-> IF j.for = "callback" THEN Nil ELSE jar.state]

Arrive(r) ==
    /\ At(r, "answer")
    /\ jar' = SetCookies(request[r])
    /\ GoesTo(r, NoRequest)
    /\ UNCHANGED <<realm, cache, expired, minted, sends, troubles>>

(***************************************************************************)
(* The world: a token's time ends; the realm goes down and comes back,     *)
(* rotates its key and may withdraw the old one, ends a login; the worker  *)
(* restarts with empty caches.                                             *)
(***************************************************************************)
Signed == {jar.access} \union {request[r].token : r \in {s \in Requests : "token" \in DOMAIN request[s]}}

Expires ==
    /\ \E t \in Signed \ (expired \union {Nil}) :
          /\ expired' = expired \union {t}
          /\ request' = Felt([r \in Requests |-> Fresh(r) /\ request[r].token = t])
    /\ UNCHANGED <<realm, cache, minted, jar, sends, troubles>>

Trouble == troubles < MaxTroubles /\ troubles' = troubles + 1

GoesDown ==
    /\ Trouble /\ realm.up
    /\ realm' = [realm EXCEPT !.up = FALSE]
    /\ request' = Felt([r \in Requests |-> TRUE])
    /\ UNCHANGED <<cache, expired, minted, jar, sends>>

ComesBack ==
    /\ ~realm.up
    /\ realm' = [realm EXCEPT !.up = TRUE]
    /\ UNCHANGED <<cache, expired, minted, jar, request, sends, troubles>>

Rotates(withdraws) ==
    /\ Trouble
    /\ realm.key + 1 \in Keys
    /\ realm' = [realm EXCEPT !.key = @ + 1,
                     !.published = (IF withdraws THEN {} ELSE @) \union {realm.key + 1}]
    /\ request' = Felt([r \in Requests |-> withdraws /\ Fresh(r)])
    /\ UNCHANGED <<cache, expired, minted, jar, sends>>

EndsLogin(l) ==
    /\ Trouble /\ l \in realm.live
    /\ realm' = [realm EXCEPT !.live = @ \ {l}]
    /\ request' = Felt([r \in Requests |-> Of(r, l)])
    /\ UNCHANGED <<cache, expired, minted, jar, sends>>

Restarts ==
    /\ Trouble
    /\ cache' = [found |-> FALSE, keys |-> Nil]
    /\ request' = [r \in Requests |-> IF request[r].pc \in {"none", "away", "restart"}
                                      THEN request[r] ELSE NoRequest]
    /\ UNCHANGED <<realm, expired, minted, jar, sends>>

World ==
    \/ Expires \/ GoesDown \/ ComesBack \/ Restarts
    \/ \E w \in BOOLEAN : Rotates(w)
    \/ \E l \in Logins : EndsLogin(l)

SessionNext ==
    \/ \E r \in Requests :
          \/ \E for \in {"page", "logout"} : Send(r, for)
          \/ StartLogin(r) \/ GivesUp(r) \/ FetchTokens(r)
          \/ Callback(r)
          \/ Resolve(r) \/ VerifyCached(r) \/ AskKeys(r) \/ TakeKeys(r) \/ Unreached(r)
          \/ Refresh(r) \/ LogoutAlone(r) \/ Revoke(r) \/ Arrive(r)
    \/ World
(***************************************************************************)
(* Whatever else the browser has under way, whatever the worker caches and *)
(* however often the realm rotates its key: a page asked for with a live   *)
(* login is answered to the signed-in viewer and never signs the browser   *)
(* out, as long as the realm can be reached.                               *)
(***************************************************************************)
GrantedIsServed ==
    \A r \in Requests :
        At(r, "answer") /\ request[r].for = "page" /\ request[r].calm =>
            request[r].viewer = "signed in" /\ request[r].cookies # <<"delete">>

(***************************************************************************)
(* A logout that reached the realm ended the login there: its refresh      *)
(* token, wherever a late answer may put it back, gives no more tokens.    *)
(***************************************************************************)
LogoutEnds ==
    \A r \in Requests :
        At(r, "answer") /\ request[r].for = "logout" /\ request[r].calm =>
            request[r].sent.refresh \notin realm.live
=============================================================================
