---------------------------- MODULE OAuthBroker ----------------------------
(***************************************************************************)
(* The process that owns the sign-in at the provider (crates/oauth-broker) *)
(* and the gateway's adapter to it (gateway/oauth_provider.py).            *)
(*                                                                         *)
(* Every connection is a thread of its own.  A login, a logout and the     *)
(* refresh before a generation each read the credential, talk to the       *)
(* provider without any lock and write the answer to the keychain and then *)
(* to memory; only generations exclude each other, by the slot they try to *)
(* take.  The keychain may refuse a write, an answer of the provider may   *)
(* be lost after it has rotated the refresh token, the gateway stops       *)
(* waiting after three minutes while the broker goes on, and the broker    *)
(* may stop at any step.                                                   *)
(*                                                                         *)
(* The provider gives the n-th login of a user session n and numbers the   *)
(* tokens of a session; it refreshes with the newest refresh token only.   *)
(* A login of the browser that nobody finishes ends by its deadline.       *)
(***************************************************************************)
EXTENDS Naturals

CONSTANTS
  Threads,    \* connections the broker handles at once
  None,
  MaxLogins,  \* bound: sessions the provider opens
  MaxTokens,  \* bound: tokens it issues in one session
  MaxStops    \* bound: how often the broker stops

ASSUME BrokerAssumption ==
  /\ MaxLogins \in Nat /\ MaxTokens \in Nat \ {0} /\ MaxStops \in Nat
  /\ None \notin Threads /\ {"idle", "connected"} \cap Threads = {}
  /\ None \notin [session : Nat, access : Nat, refresh : Nat]

VARIABLES
  keychain,    \* the record in the keychain
  credential,  \* the record in memory
  slot,        \* the thread that holds the generation slot
  port,        \* the thread that listens for the callback of a login
  pc,          \* what each connection is at
  held,        \* the record it has read or received
  gateway,     \* what the adapter's one call waits for
  issued,      \* provider: tokens issued in each session
  newest,      \* provider: the refresh token it accepts
  revoked,     \* provider: sessions ended by a revocation
  expired,     \* access tokens that are due for a refresh
  lost,        \* sessions whose newest refresh token never reached the keychain
  out,         \* the last thing a login or logout did was a logout that succeeded
  raced,       \* two threads had a credential in hand at once
  stops

provider == <<issued, newest, revoked>>
vars == <<keychain, credential, slot, port, pc, held, gateway, provider,
          expired, lost, out, raced, stops>>

-----------------------------------------------------------------------------
(* Data *)

Sessions == 1..MaxLogins
Numbers  == 1..MaxTokens

Credential == [session : Sessions, access : Numbers, refresh : Numbers]

Login    == {"waiting", "loginSave", "loginSet"}
Logout   == {"revoke", "clear"}
Refresh  == {"ask", "refreshSave", "refreshSet"}
Complete == {"check", "clone", "use", "generate"} \cup Refresh
Steps    == {"idle"} \cup Login \cup Logout \cup Complete

\* The steps with a credential in hand that memory or the keychain may not have.
InHand == {"loginSave", "loginSet"} \cup Logout \cup Refresh

Logins == {s \in Sessions : issued[s] > 0}

NeedsRefresh(c) == <<c.session, c.access>> \in expired

\* The provider would refresh with this record, unless its answer was lost.
Newest(c) == c.session \in lost \/ c.refresh = newest[c.session]

\* A refresh brought this refresh token with the access token, and the provider
\* takes no earlier one.
Rotated(c) == c.refresh = c.access

Under(s, steps) ==
  \E t \in Threads : pc[t] \in steps /\ held[t].session = s /\ Rotated(held[t])

Touch(t) == raced' = (raced \/ \E u \in Threads \ {t} : pc[u] \in InHand)

Goto(t, step) == pc' = [pc EXCEPT ![t] = step]
Hold(t, c)    == held' = [held EXCEPT ![t] = c]

-----------------------------------------------------------------------------
Init ==
  /\ keychain = None /\ credential = None
  /\ slot = None /\ port = None /\ gateway = "idle"
  /\ pc = [t \in Threads |-> "idle"]
  /\ held = [t \in Threads |-> None]
  /\ issued = [s \in Sessions |-> 0]
  /\ newest = [s \in Sessions |-> 0]
  /\ revoked = {} /\ expired = {} /\ lost = {}
  /\ out = FALSE /\ raced = FALSE /\ stops = 0

-----------------------------------------------------------------------------
(* login *)

\* The callback port is the only lock of a login: another one is refused.
LoginBegin(t) ==
  /\ pc[t] = "idle" /\ port = None
  /\ port' = t
  /\ Goto(t, "waiting")
  /\ UNCHANGED <<keychain, credential, slot, held, gateway, provider, expired, lost, out, raced, stops>>

\* Denied, out of time, or the code, its answer or the ID token is no good.
LoginEnds(t) ==
  /\ pc[t] = "waiting"
  /\ port' = None
  /\ Goto(t, "idle")
  /\ UNCHANGED <<keychain, credential, slot, held, gateway, provider, expired, lost, out, raced, stops>>

LoginGranted(t) ==
  /\ pc[t] = "waiting"
  /\ \E s \in Sessions \ Logins :
       /\ \A r \in Sessions \ Logins : s <= r
       /\ issued' = [issued EXCEPT ![s] = 1]
       /\ newest' = [newest EXCEPT ![s] = 1]
       /\ Hold(t, [session |-> s, access |-> 1, refresh |-> 1])
  /\ Goto(t, "loginSave")
  /\ Touch(t)
  /\ UNCHANGED <<keychain, credential, slot, port, gateway, revoked, expired, lost, out, stops>>

LoginSave(t) ==
  /\ pc[t] = "loginSave"
  /\ \/ /\ keychain' = held[t]
        /\ Goto(t, "loginSet")
        /\ out' = FALSE
        /\ UNCHANGED <<held, port>>
     \/ /\ Goto(t, "idle") /\ Hold(t, None)
        /\ port' = None
        /\ UNCHANGED <<keychain, out>>
  /\ UNCHANGED <<credential, slot, gateway, provider, expired, lost, raced, stops>>

LoginSet(t) ==
  /\ pc[t] = "loginSet"
  /\ credential' = held[t]
  /\ Goto(t, "idle") /\ Hold(t, None)
  /\ port' = None
  /\ UNCHANGED <<keychain, slot, gateway, provider, expired, lost, out, raced, stops>>

-----------------------------------------------------------------------------
(* logout *)

\* Mutant: sign-out leaves the credential until the provider has answered.
LogoutReads(t) ==
  /\ pc[t] = "idle"
  /\ Hold(t, credential)
  /\ Goto(t, IF credential = None THEN "clear" ELSE "revoke")
  /\ Touch(t)
  /\ UNCHANGED <<keychain, credential, slot, port, gateway, provider, expired, lost, out, stops>>

LogoutTake(t) ==
  /\ pc[t] = "idle"
  /\ credential' = None
  /\ Hold(t, credential)
  /\ Goto(t, IF credential = None THEN "clear" ELSE "revoke")
  /\ Touch(t)
  /\ UNCHANGED <<keychain, slot, port, gateway, provider, expired, lost, out, stops>>

\* Best effort: the answer is not looked at.
LogoutRevoke(t) ==
  /\ pc[t] = "revoke"
  /\ revoked' \in {revoked, revoked \cup {held[t].session}}
  /\ Hold(t, None)
  /\ Goto(t, "clear")
  /\ UNCHANGED <<keychain, credential, slot, port, gateway, issued, newest, expired, lost, out, raced, stops>>

\* The entry is deleted, or the logout answers that it could not be.
LogoutClear(t) ==
  /\ pc[t] = "clear"
  /\ \/ keychain' = None /\ out' = TRUE
     \/ UNCHANGED <<keychain, out>>
  /\ Goto(t, "idle")
  /\ UNCHANGED <<credential, slot, port, held, gateway, provider, expired, lost, raced, stops>>

-----------------------------------------------------------------------------
(* The adapter of the gateway: one call at a time, by a semaphore of its   *)
(* own, which looks at the status first and gives up after three minutes   *)

AdapterStatus ==
  /\ gateway = "idle"
  /\ credential # None
  /\ gateway' = "connected"
  /\ UNCHANGED <<keychain, credential, slot, port, pc, held, provider, expired, lost, out, raced, stops>>

\* Mutant: a second request is sent beside the first.
PostUnguarded(t) ==
  /\ gateway = "connected" /\ pc[t] = "idle"
  /\ slot' = t /\ gateway' = t /\ Goto(t, "check")
  /\ UNCHANGED <<keychain, credential, port, held, provider, expired, lost, out, raced, stops>>

\* The request is refused as busy, or its thread takes the slot.
AdapterPost(t) ==
  /\ gateway = "connected" /\ pc[t] = "idle"
  /\ IF slot = None
     THEN slot' = t /\ gateway' = t /\ Goto(t, "check")
     ELSE gateway' = "idle" /\ UNCHANGED <<slot, pc>>
  /\ UNCHANGED <<keychain, credential, port, held, provider, expired, lost, out, raced, stops>>

\* The broker does not notice.
AdapterTimeout ==
  /\ gateway \in Threads
  /\ gateway' = "idle"
  /\ UNCHANGED <<keychain, credential, slot, port, pc, held, provider, expired, lost, out, raced, stops>>

-----------------------------------------------------------------------------
(* complete_request: ensure_fresh, then the generation *)

\* The request ends, with its reply or an error, and gives the slot back.
Answer(t) ==
  /\ slot' = None
  /\ Goto(t, "idle") /\ Hold(t, None)
  /\ gateway' = IF gateway = t THEN "idle" ELSE gateway

Check(t) ==
  /\ pc[t] = "check"
  /\ IF credential = None THEN Answer(t)
     ELSE /\ Goto(t, IF NeedsRefresh(credential) THEN "clone" ELSE "use")
          /\ UNCHANGED <<slot, held, gateway>>
  /\ UNCHANGED <<keychain, credential, port, provider, expired, lost, out, raced, stops>>

Clone(t) ==
  /\ pc[t] = "clone"
  /\ IF credential = None
     THEN Answer(t) /\ UNCHANGED raced
     ELSE /\ Hold(t, credential) /\ Goto(t, "ask") /\ Touch(t)
          /\ UNCHANGED <<slot, gateway>>
  /\ UNCHANGED <<keychain, credential, port, provider, expired, lost, out, stops>>

\* The provider never hears of it, or refuses.
AskFails(t) ==
  /\ pc[t] = "ask"
  /\ Answer(t)
  /\ UNCHANGED <<keychain, credential, port, provider, expired, lost, out, raced, stops>>

\* Mutant: the record keeps the token that was presented.
KeepsPresented(c, n, rotates) == [c EXCEPT !.access = n]

\* What a refresh makes of a record when the provider issues token n: an
\* answer without a refresh token leaves the one that was presented.
Refreshed(c, n, rotates) ==
  [c EXCEPT !.access = n, !.refresh = IF rotates THEN n ELSE c.refresh]

\* It refreshes; its answer arrives, or the provider alone has seen it.
AskGranted(t) ==
  LET c == held[t]
      n == issued[c.session] + 1
  IN
  /\ pc[t] = "ask"
  /\ c.session \notin revoked /\ c.refresh = newest[c.session]
  /\ n <= MaxTokens
  /\ issued' = [issued EXCEPT ![c.session] = n]
  /\ \E rotates \in BOOLEAN :
       /\ newest' = [newest EXCEPT ![c.session] = IF rotates THEN n ELSE @]
       /\ \/ /\ Hold(t, Refreshed(c, n, rotates))
             /\ Goto(t, "refreshSave")
             /\ UNCHANGED <<slot, gateway, lost>>
          \/ /\ Answer(t)
             /\ lost' = IF rotates THEN lost \cup {c.session} ELSE lost
  /\ UNCHANGED <<keychain, credential, port, revoked, expired, out, raced, stops>>

\* Mutant: an error of the keychain is passed over.
SaveUnchecked(t) ==
  /\ pc[t] = "refreshSave"
  /\ keychain' \in {held[t], keychain}
  /\ Goto(t, "refreshSet")
  /\ UNCHANGED <<slot, held, gateway, lost, credential, port, provider, expired, out, raced, stops>>

RefreshSave(t) ==
  /\ pc[t] = "refreshSave"
  /\ \/ /\ keychain' = held[t]
        /\ Goto(t, "refreshSet")
        /\ UNCHANGED <<slot, held, gateway, lost>>
     \/ /\ Answer(t)
        /\ lost' = IF Rotated(held[t]) THEN lost \cup {held[t].session} ELSE lost
        /\ UNCHANGED keychain
  /\ UNCHANGED <<credential, port, provider, expired, out, raced, stops>>

RefreshSet(t) ==
  /\ pc[t] = "refreshSet"
  /\ credential' = held[t]
  /\ Hold(t, None)
  /\ Goto(t, "use")
  /\ UNCHANGED <<keychain, slot, port, gateway, provider, expired, lost, out, raced, stops>>

Use(t) ==
  /\ pc[t] = "use"
  /\ IF credential = None THEN Answer(t)
     ELSE Hold(t, credential) /\ Goto(t, "generate") /\ UNCHANGED <<slot, gateway>>
  /\ UNCHANGED <<keychain, credential, port, provider, expired, lost, out, raced, stops>>

\* The one request to the provider: a reply, or an error of any kind.
Generate(t) ==
  /\ pc[t] = "generate"
  /\ Answer(t)
  /\ UNCHANGED <<keychain, credential, port, provider, expired, lost, out, raced, stops>>

-----------------------------------------------------------------------------
(* Time and stops *)

Expires ==
  /\ credential # None /\ ~NeedsRefresh(credential)
  /\ expired' = expired \cup {<<credential.session, credential.access>>}
  /\ UNCHANGED <<keychain, credential, slot, port, pc, held, gateway, provider, lost, out, raced, stops>>

\* The broker stops; the next one loads the keychain.
Restart ==
  /\ stops < MaxStops
  /\ stops' = stops + 1
  /\ credential' = keychain
  /\ slot' = None /\ port' = None
  /\ gateway' = IF gateway \in Threads THEN "idle" ELSE gateway
  /\ pc' = [t \in Threads |-> "idle"]
  /\ held' = [t \in Threads |-> None]
  /\ lost' = lost \cup {held[t].session : t \in {u \in Threads : pc[u] = "refreshSave" /\ Rotated(held[u])}}
  /\ UNCHANGED <<keychain, provider, expired, out, raced>>

-----------------------------------------------------------------------------
Thread(t) ==
  \/ LoginBegin(t) \/ LoginEnds(t) \/ LoginGranted(t) \/ LoginSave(t) \/ LoginSet(t)
  \/ LogoutTake(t) \/ LogoutRevoke(t) \/ LogoutClear(t)
  \/ AdapterPost(t) \/ Check(t) \/ Clone(t) \/ AskFails(t) \/ AskGranted(t)
  \/ RefreshSave(t) \/ RefreshSet(t) \/ Use(t) \/ Generate(t)

Next ==
  \/ \E t \in Threads : Thread(t)
  \/ AdapterStatus \/ AdapterTimeout \/ Expires \/ Restart

Spec == Init /\ [][Next]_vars

-----------------------------------------------------------------------------
(* Properties *)

\* Every variable has its type.
TypeOK ==
  /\ keychain \in Credential \cup {None} /\ credential \in Credential \cup {None}
  /\ slot \in Threads \cup {None} /\ port \in Threads \cup {None}
  /\ pc \in [Threads -> Steps] /\ held \in [Threads -> Credential \cup {None}]
  /\ gateway \in {"idle", "connected"} \cup Threads
  /\ issued \in [Sessions -> 0..MaxTokens] /\ newest \in [Sessions -> 0..MaxTokens]
  /\ revoked \subseteq Sessions /\ expired \subseteq Sessions \X Numbers
  /\ lost \subseteq Sessions /\ out \in BOOLEAN /\ raced \in BOOLEAN
  /\ stops \in 0..MaxStops

\* One generation, with its refresh, is under way at a time, although the
\* adapter has given up on one and asked for another (complete_request).
OneGeneration ==
  \A t, u \in Threads : pc[t] \in Complete /\ pc[u] \in Complete => t = u

\* A refresh token that is kept, or presented to the provider, is the newest
\* one of its session, unless a newer one was issued and lost on its way to the
\* keychain: the provider would refuse any other (ensure_fresh).
NewestIsKept ==
  /\ keychain # None => Newest(keychain) \/ Under(keychain.session, {"refreshSave"})
  /\ credential # None
       => Newest(credential) \/ Under(credential.session, {"refreshSave", "refreshSet"})
  /\ \A t \in Threads : pc[t] \in InHand \ Logout => Newest(held[t])

\* Unless two threads had a credential in hand at once, memory is signed in
\* as the keychain is whenever none has: a restart changes nothing.
RestartKeepsSignIn ==
  ~raced /\ (\A t \in Threads : pc[t] \notin InHand) /\ credential # None
    => credential = keychain

\* After a logout that succeeded nobody is signed in, nor after a restart,
\* until a login has been stored; unless the logout ran beside a refresh or
\* a login that had its tokens already.
SignedOutStays == out /\ ~raced => credential = None /\ keychain = None

\* A logout always clears the local entry (docs/OAUTH_CHAT.md).
LogoutClears == out => keychain = None
=============================================================================
