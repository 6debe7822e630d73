---------------------------- MODULE HelperProofs ----------------------------
(***************************************************************************)
(* Theorems about the processes a gateway or daemon talks to: the OAuth    *)
(* broker, for any number of connections, logins, tokens and stops, and    *)
(* the local model workers, for any number of callers, requests, chunks    *)
(* and faults.                                                             *)
(***************************************************************************)
EXTENDS OAuthBroker, LocalWorker, SequenceTheorems, TLAPS

-----------------------------------------------------------------------------
(* The OAuth broker *)

\* A connection that completes a request holds the slot.
Slotted == \A t \in Threads : pc[t] \in Complete => slot = t

\* Whoever is to write or revoke a record has one.
Holding ==
  \A t \in Threads : pc[t] \in {"loginSave", "loginSet", "revoke"} \cup Refresh => held[t] \in Credential

-----------------------------------------------------------------------------
LEMMA TypeInit == Init => TypeOK /\ Holding
<1> SUFFICES ASSUME Init PROVE TypeOK /\ Holding  OBVIOUS
<1>1. pc \in [Threads -> Steps] /\ held \in [Threads -> Credential \cup {None}]
  BY DEF Init, Steps
<1>2. issued \in [Sessions -> 0..MaxTokens] /\ newest \in [Sessions -> 0..MaxTokens]
  BY BrokerAssumption DEF Init
<1>3. revoked \subseteq Sessions /\ expired \subseteq Sessions \X Numbers /\ lost \subseteq Sessions
  BY DEF Init
<1>4. keychain = None /\ credential = None /\ slot = None /\ port = None /\ gateway = "idle"
      /\ out = FALSE /\ raced = FALSE
  BY DEF Init
<1>5. stops \in 0..MaxStops  BY BrokerAssumption DEF Init
<1>6. Holding  BY DEF Init, Holding, Refresh
<1> QED BY <1>1, <1>2, <1>3, <1>4, <1>5, <1>6 DEF TypeOK

LEMMA TypeLogin ==
  ASSUME TypeOK, Holding, NEW t \in Threads,
         \/ LoginBegin(t) \/ LoginEnds(t) \/ LoginGranted(t) \/ LoginSave(t) \/ LoginSet(t)
  PROVE  TypeOK' /\ Holding'
<1> USE BrokerAssumption DEF TypeOK, Holding, Refresh, Steps, Login, Goto, Hold, provider
<1>1. CASE LoginBegin(t) BY <1>1 DEF LoginBegin
<1>2. CASE LoginEnds(t) BY <1>2 DEF LoginEnds
<1>3. CASE LoginGranted(t)
  <2>1. PICK s \in Sessions :
          /\ issued' = [issued EXCEPT ![s] = 1] /\ newest' = [newest EXCEPT ![s] = 1]
          /\ held' = [held EXCEPT ![t] = [session |-> s, access |-> 1, refresh |-> 1]]
    BY <1>3 DEF LoginGranted
  <2>2. [session |-> s, access |-> 1, refresh |-> 1] \in Credential BY DEF Credential, Numbers
  <2>3. held' \in [Threads -> Credential \cup {None}] BY <2>1, <2>2
  <2>4. issued' \in [Sessions -> 0..MaxTokens] /\ newest' \in [Sessions -> 0..MaxTokens] BY <2>1
  <2>5. raced' \in BOOLEAN BY <1>3 DEF LoginGranted, Touch
  <2>6. \A u \in Threads \ {t} : held'[u] = held[u] /\ pc'[u] = pc[u]  BY <1>3, <2>1 DEF LoginGranted
  <2>7. held'[t] \in Credential  BY <2>1, <2>2
  <2>8. Holding'  BY <2>6, <2>7
  <2>9. pc' \in [Threads -> Steps]  BY <1>3 DEF LoginGranted
  <2> QED BY <1>3, <2>3, <2>4, <2>5, <2>8, <2>9 DEF LoginGranted
<1>4. CASE LoginSave(t) BY <1>4 DEF LoginSave
<1>5. CASE LoginSet(t) BY <1>5 DEF LoginSet
<1> QED BY <1>1, <1>2, <1>3, <1>4, <1>5

LEMMA TypeLogout ==
  ASSUME TypeOK, Holding, NEW t \in Threads, LogoutTake(t) \/ LogoutRevoke(t) \/ LogoutClear(t)
  PROVE  TypeOK' /\ Holding'
<1> USE BrokerAssumption DEF TypeOK, Holding, Refresh, Steps, Logout, Goto, Hold, Touch, provider
<1>1. CASE LogoutTake(t) BY <1>1 DEF LogoutTake
<1>2. CASE LogoutRevoke(t)
  <2>1. held[t].session \in Sessions  BY <1>2 DEF LogoutRevoke, Credential
  <2> QED BY <1>2, <2>1 DEF LogoutRevoke
<1>3. CASE LogoutClear(t) BY <1>3 DEF LogoutClear
<1> QED BY <1>1, <1>2, <1>3

LEMMA TypeComplete ==
  ASSUME TypeOK, Holding, NEW t \in Threads,
         \/ AdapterPost(t) \/ Check(t) \/ Clone(t) \/ AskFails(t) \/ AskGranted(t)
         \/ RefreshSave(t) \/ RefreshSet(t) \/ Use(t) \/ Generate(t)
  PROVE  TypeOK' /\ Holding'
<1> USE BrokerAssumption DEF TypeOK, Holding, Steps, Complete, Refresh, Goto, Hold, Touch, Answer, provider
<1>1. CASE AdapterPost(t) BY <1>1 DEF AdapterPost
<1>2. CASE Check(t) BY <1>2 DEF Check
<1>3. CASE Clone(t)
  <2>1. CASE credential = None BY <1>3, <2>1 DEF Clone
  <2>2. CASE credential # None
    <3>1. held' = [held EXCEPT ![t] = credential] /\ pc' = [pc EXCEPT ![t] = "ask"]
          /\ UNCHANGED <<slot, gateway>>
      BY <1>3, <2>2 DEF Clone
    <3>2. raced' \in BOOLEAN  BY <1>3, <2>2 DEF Clone
    <3>3. Holding'  BY <2>2, <3>1
    <3> QED BY <1>3, <3>1, <3>2, <3>3 DEF Clone
  <2> QED BY <2>1, <2>2
<1>4. CASE AskFails(t) BY <1>4 DEF AskFails
<1>5. CASE AskGranted(t)
  <2> DEFINE c == held[t]
             n == issued[c.session] + 1
  <2>1. c \in Credential /\ c.session \in Sessions  BY <1>5 DEF AskGranted, Credential
  <2>2. n \in Numbers  BY <1>5, <2>1 DEF AskGranted, Numbers
  <2>3. PICK rotates \in BOOLEAN :
          /\ newest' = [newest EXCEPT ![c.session] = IF rotates THEN n ELSE @]
          /\ \/ /\ Hold(t, Refreshed(c, n, rotates))
                /\ Goto(t, "refreshSave")
                /\ UNCHANGED <<slot, gateway, lost>>
             \/ /\ Answer(t)
                /\ lost' = IF rotates THEN lost \cup {c.session} ELSE lost
    BY <1>5 DEF AskGranted
  <2>4. Refreshed(c, n, rotates) \in Credential  BY <2>1, <2>2 DEF Refreshed, Credential
  <2>5. newest' \in [Sessions -> 0..MaxTokens] /\ issued' \in [Sessions -> 0..MaxTokens]
    BY <1>5, <2>1, <2>2, <2>3 DEF AskGranted, Numbers
  <2>6. CASE Answer(t) /\ lost' = IF rotates THEN lost \cup {c.session} ELSE lost
    BY <1>5, <2>1, <2>5, <2>6 DEF AskGranted
  <2>7. CASE Hold(t, Refreshed(c, n, rotates)) /\ Goto(t, "refreshSave") /\ UNCHANGED <<slot, gateway, lost>>
    BY <1>5, <2>4, <2>5, <2>7 DEF AskGranted
  <2> QED BY <2>3, <2>6, <2>7
<1>6. CASE RefreshSave(t)
  <2>1. held[t] \in Credential /\ held[t].session \in Sessions  BY <1>6 DEF RefreshSave, Credential
  <2> QED BY <1>6, <2>1 DEF RefreshSave
<1>7. CASE RefreshSet(t) BY <1>7 DEF RefreshSet
<1>8. CASE Use(t) BY <1>8 DEF Use
<1>9. CASE Generate(t) BY <1>9 DEF Generate
<1> QED BY <1>1, <1>2, <1>3, <1>4, <1>5, <1>6, <1>7, <1>8, <1>9

LEMMA TypeOther ==
  ASSUME TypeOK, Holding, AdapterStatus \/ AdapterTimeout \/ Expires \/ Restart
  PROVE  TypeOK' /\ Holding'
<1> USE BrokerAssumption DEF TypeOK, Holding, Refresh, Steps, provider
<1>1. CASE AdapterStatus BY <1>1 DEF AdapterStatus
<1>2. CASE AdapterTimeout BY <1>2 DEF AdapterTimeout
<1>3. CASE Expires
  <2>1. <<credential.session, credential.access>> \in Sessions \X Numbers  BY <1>3 DEF Expires, Credential
  <2> QED BY <1>3, <2>1 DEF Expires
<1>4. CASE Restart
  <2>1. \A u \in Threads : pc[u] = "refreshSave" => held[u].session \in Sessions  BY DEF Credential
  <2>2. lost' \subseteq Sessions  BY <1>4, <2>1 DEF Restart
  <2>3. stops' \in 0..MaxStops  BY <1>4 DEF Restart
  <2> QED BY <1>4, <2>2, <2>3 DEF Restart
<1> QED BY <1>1, <1>2, <1>3, <1>4

LEMMA TypeStep == TypeOK /\ Holding /\ [Next]_vars => TypeOK' /\ Holding'
<1> SUFFICES ASSUME TypeOK, Holding, [Next]_vars PROVE TypeOK' /\ Holding'  OBVIOUS
<1>1. CASE Next BY <1>1, TypeLogin, TypeLogout, TypeComplete, TypeOther DEF Next, Thread
<1>2. CASE UNCHANGED vars BY <1>2 DEF vars, provider, TypeOK, Holding
<1> QED BY <1>1, <1>2

\* Every variable has its type, in every step.
THEOREM TypeCorrect == Spec => []TypeOK
BY TypeInit, TypeStep, PTL DEF Spec

-----------------------------------------------------------------------------
(* One generation at a time *)

LEMMA SlottedStep == TypeOK /\ Slotted /\ [Next]_vars => Slotted'
<1> SUFFICES ASSUME TypeOK, Slotted, [Next]_vars PROVE Slotted'  OBVIOUS
<1> USE BrokerAssumption DEF TypeOK, Slotted, Complete, Refresh, Goto, Hold, Answer
<1>1. CASE \E t \in Threads : Thread(t)
  <2> PICK t \in Threads : Thread(t)  BY <1>1
  <2>1. CASE LoginBegin(t) \/ LoginEnds(t) \/ LoginGranted(t) \/ LoginSave(t) \/ LoginSet(t)
    BY <2>1 DEF LoginBegin, LoginEnds, LoginGranted, LoginSave, LoginSet
  <2>2. CASE LogoutTake(t) \/ LogoutRevoke(t) \/ LogoutClear(t)
    BY <2>2 DEF LogoutTake, LogoutRevoke, LogoutClear
  <2>3. CASE AdapterPost(t) BY <2>3 DEF AdapterPost
  <2>4. CASE Check(t) \/ Clone(t) BY <2>4 DEF Check, Clone
  <2>5. CASE AskFails(t) BY <2>5 DEF AskFails
  <2>6. CASE AskGranted(t) BY <2>6 DEF AskGranted
  <2>7. CASE RefreshSave(t) \/ RefreshSet(t) BY <2>7 DEF RefreshSave, RefreshSet
  <2>8. CASE Use(t) \/ Generate(t) BY <2>8 DEF Use, Generate
  <2> QED BY <2>1, <2>2, <2>3, <2>4, <2>5, <2>6, <2>7, <2>8 DEF Thread
<1>2. CASE AdapterStatus \/ AdapterTimeout \/ Expires
  BY <1>2 DEF AdapterStatus, AdapterTimeout, Expires
<1>3. CASE Restart BY <1>3 DEF Restart
<1>4. CASE UNCHANGED vars BY <1>4 DEF vars
<1> QED BY <1>1, <1>2, <1>3, <1>4 DEF Next

\* One generation, with its refresh, is under way at a time.
THEOREM OneAtATime == Spec => []OneGeneration
<1>1. Init => Slotted  BY DEF Init, Slotted, Complete, Refresh
<1>2. Slotted => OneGeneration  BY DEF Slotted, OneGeneration
<1> QED BY TypeInit, TypeStep, SlottedStep, <1>1, <1>2, PTL DEF Spec

-----------------------------------------------------------------------------
(* The newest refresh token is kept *)

\* The provider has opened the session of every record there is, and a login
\* that has not put its record into memory is alone in having it.
Known(c) == c # None => issued[c.session] > 0
OwnSession(t, c) == c # None => c.session # held[t].session

Owned ==
  /\ Known(keychain) /\ Known(credential) /\ \A t \in Threads : Known(held[t])
  /\ \A t \in Threads : pc[t] \in {"loginSave", "loginSet"} =>
       /\ OwnSession(t, credential)
       /\ pc[t] = "loginSave" => OwnSession(t, keychain)
       /\ \A u \in Threads \ {t} : OwnSession(t, held[u])

LEMMA NoneIsNoRecord == None \notin Credential
  BY BrokerAssumption DEF Credential, Sessions, Numbers

LEMMA RecordFields ==
  ASSUME NEW c \in Credential
  PROVE  c.session \in Sessions /\ c.access \in Numbers /\ c.refresh \in Numbers
BY DEF Credential

LEMMA RefreshedFields ==
  ASSUME NEW c \in Credential, NEW n \in Numbers, NEW rotates \in BOOLEAN
  PROVE  /\ Refreshed(c, n, rotates) \in Credential
         /\ Refreshed(c, n, rotates).session = c.session
         /\ Refreshed(c, n, rotates).refresh = IF rotates THEN n ELSE c.refresh
         /\ Refreshed(c, n, rotates).access = n
BY DEF Refreshed, Credential

\* What a granted refresh does, in terms of the token it was issued.
LEMMA AskGrantedCases ==
  ASSUME TypeOK, Holding, NEW t \in Threads, AskGranted(t)
  PROVE  /\ held[t] \in Credential /\ pc[t] = "ask"
         /\ held[t].refresh = newest[held[t].session]
         /\ \E n \in Numbers, rotates \in BOOLEAN :
              /\ issued' = [issued EXCEPT ![held[t].session] = n]
              /\ newest' = [newest EXCEPT ![held[t].session] = IF rotates THEN n ELSE @]
              /\ \/ /\ held' = [held EXCEPT ![t] = Refreshed(held[t], n, rotates)]
                    /\ pc' = [pc EXCEPT ![t] = "refreshSave"]
                    /\ UNCHANGED <<slot, gateway, lost>>
                 \/ /\ Answer(t)
                    /\ lost' = IF rotates THEN lost \cup {held[t].session} ELSE lost
         /\ UNCHANGED <<keychain, credential, port, revoked, expired, out, raced, stops>>
<1>1. pc[t] = "ask" /\ held[t].refresh = newest[held[t].session]  BY DEF AskGranted
<1>2. held[t] \in Credential  BY <1>1 DEF Holding, Refresh
<1>3. issued[held[t].session] \in Nat  BY <1>2, BrokerAssumption, RecordFields DEF TypeOK
<1>4. issued[held[t].session] + 1 \in Numbers  BY <1>3, BrokerAssumption DEF AskGranted, Numbers
<1> QED BY <1>1, <1>2, <1>4 DEF AskGranted, Hold, Goto

LEMMA OwnedStep ==
  ASSUME TypeOK, Holding, Owned, Slotted, [Next]_vars
  PROVE  Owned'
<1> USE BrokerAssumption DEF TypeOK, Holding, Owned, Known, OwnSession, Refresh, Goto, Hold, Answer
<1>1. CASE \E t \in Threads : Thread(t)
  <2> PICK t \in Threads : Thread(t)  BY <1>1
  <2>1. CASE LoginBegin(t) BY <2>1 DEF LoginBegin, provider
  <2>2. CASE LoginEnds(t) BY <2>2 DEF LoginEnds, provider
  <2>3. CASE LoginGranted(t)
    <3>1. PICK s \in Sessions \ Logins :
            /\ issued' = [issued EXCEPT ![s] = 1]
            /\ held' = [held EXCEPT ![t] = [session |-> s, access |-> 1, refresh |-> 1]]
      BY <2>3 DEF LoginGranted
    <3>2. issued[s] = 0 /\ s \in Sessions  BY <3>1 DEF Logins
    <3>3. \A c \in Credential \cup {None} : Known(c) /\ c # None => c.session # s /\ issued'[c.session] > 0
      BY <3>1, <3>2 DEF Credential
    <3>4. /\ \A u \in Threads \ {t} : held'[u] = held[u] /\ pc'[u] = pc[u]
          /\ pc'[t] = "loginSave" /\ held'[t].session = s /\ issued'[s] > 0
          /\ UNCHANGED <<keychain, credential>>
      BY <2>3, <3>1 DEF LoginGranted
    <3>5. Known(keychain)' /\ Known(credential)' /\ \A u \in Threads : Known(held[u])'
      BY <3>3, <3>4
    <3>6. /\ keychain # None => keychain.session # s
          /\ credential # None => credential.session # s
          /\ \A u \in Threads \ {t} : held[u] # None => held[u].session # s
      BY <3>3
    <3>7. ASSUME NEW u \in Threads, pc'[u] \in {"loginSave", "loginSet"}
          PROVE  /\ OwnSession(u, credential)'
                 /\ pc'[u] = "loginSave" => OwnSession(u, keychain)'
                 /\ \A v \in Threads \ {u} : OwnSession(u, held[v])'
      <4>1. CASE u = t BY <4>1, <3>4, <3>6
      <4>2. CASE u # t
        <5>1. pc[u] = pc'[u] /\ held'[u] = held[u] /\ held[u] \in Credential /\ held[u].session # s
          BY <4>2, <3>4, <3>6, <3>7, NoneIsNoRecord
        <5>2. \A v \in Threads \ {u} : OwnSession(u, held[v])'
          BY <5>1, <3>4, <3>7
        <5> QED BY <5>1, <5>2, <3>4, <3>7
      <4> QED BY <4>1, <4>2
    <3> QED BY <3>5, <3>7
  <2>4. CASE LoginSave(t) BY <2>4 DEF LoginSave, provider
  <2>5. CASE LoginSet(t) BY <2>5 DEF LoginSet, provider
  <2>6. CASE LogoutTake(t) BY <2>6 DEF LogoutTake, provider
  <2>7. CASE LogoutRevoke(t) BY <2>7 DEF LogoutRevoke
  <2>8. CASE LogoutClear(t) BY <2>8 DEF LogoutClear, provider
  <2>9. CASE AdapterPost(t) BY <2>9 DEF AdapterPost, provider
  <2>10. CASE Check(t) BY <2>10 DEF Check, provider
  <2>11. CASE Clone(t) BY <2>11 DEF Clone, provider
  <2>12. CASE AskFails(t) BY <2>12 DEF AskFails, provider
  <2>13. CASE AskGranted(t)
    <3>1. held[t] \in Credential /\ held[t].session \in Sessions
      BY <2>13, AskGrantedCases, RecordFields
    <3>2. \A s \in Sessions : issued[s] > 0 => issued'[s] > 0
      BY <2>13, <3>1, AskGrantedCases DEF Numbers
    <3>3. held'[t] = None \/ held'[t].session = held[t].session
      BY <2>13, <3>1, AskGrantedCases, RefreshedFields
    <3>4. \A u \in Threads \ {t} : held'[u] = held[u] /\ pc'[u] = pc[u]
      BY <2>13, AskGrantedCases
    <3>5. pc'[t] \in {"idle", "refreshSave"}  BY <2>13, AskGrantedCases
    <3>6. UNCHANGED <<keychain, credential>>  BY <2>13 DEF AskGranted
    <3>7. ASSUME NEW c \in Credential \cup {None}, Known(c), c # None
          PROVE  issued'[c.session] > 0
      BY <3>2, <3>7, RecordFields
    <3>8. Known(keychain)' /\ Known(credential)' /\ \A u \in Threads : Known(held[u])'
      <4>1. Known(held[t])'
        <5>1. CASE held'[t] = None BY <5>1
        <5>2. CASE held'[t].session = held[t].session BY <5>2, <3>1, <3>7, NoneIsNoRecord
        <5> QED BY <5>1, <5>2, <3>3
      <4> QED BY <4>1, <3>4, <3>6, <3>7
    <3>9. ASSUME NEW u \in Threads, pc'[u] \in {"loginSave", "loginSet"}
          PROVE  /\ OwnSession(u, credential)'
                 /\ pc'[u] = "loginSave" => OwnSession(u, keychain)'
                 /\ \A v \in Threads \ {u} : OwnSession(u, held[v])'
      <4>1. u # t /\ pc[u] = pc'[u] /\ held'[u] = held[u]  BY <3>9, <3>4, <3>5
      <4>2. held[t] # None  BY <3>1, NoneIsNoRecord
      <4>3. held[t].session # held[u].session  BY <3>9, <4>1, <4>2
      <4> QED BY <3>9, <4>1, <4>3, <3>3, <3>4, <3>6
    <3> QED BY <3>8, <3>9
  <2>14. CASE RefreshSave(t) BY <2>14 DEF RefreshSave, provider
  <2>15. CASE RefreshSet(t) BY <2>15 DEF RefreshSet, provider
  <2>16. CASE Use(t) BY <2>16 DEF Use, provider
  <2>17. CASE Generate(t) BY <2>17 DEF Generate, provider
  <2> QED BY <2>1, <2>2, <2>3, <2>4, <2>5, <2>6, <2>7, <2>8, <2>9, <2>10, <2>11, <2>12, <2>13,
             <2>14, <2>15, <2>16, <2>17 DEF Thread
<1>2. CASE AdapterStatus \/ AdapterTimeout \/ Expires
  BY <1>2 DEF AdapterStatus, AdapterTimeout, Expires, provider
<1>3. CASE Restart BY <1>3 DEF Restart, provider
<1>4. CASE UNCHANGED vars BY <1>4 DEF vars, provider
<1> QED BY <1>1, <1>2, <1>3, <1>4 DEF Next

\* A thread that neither has nor gets a record to write leaves the newest kept.
LEMMA NewestAside ==
  ASSUME TypeOK, NewestIsKept, NEW t \in Threads,
         pc[t] \notin {"refreshSave", "refreshSet"}, pc'[t] \notin InHand \ Logout,
         \A u \in Threads \ {t} : pc'[u] = pc[u] /\ held'[u] = held[u],
         UNCHANGED <<newest, lost>>, keychain' \in {keychain, None}, credential' \in {credential, None}
  PROVE  NewestIsKept'
<1>1. \A c : Newest(c) => Newest(c)'  BY DEF Newest
<1>2. \A s \in Sessions : /\ Under(s, {"refreshSave"}) => Under(s, {"refreshSave"})'
                          /\ Under(s, {"refreshSave", "refreshSet"}) => Under(s, {"refreshSave", "refreshSet"})'
  BY DEF Under
<1>3. \A c \in Credential : c.session \in Sessions  BY RecordFields
<1> QED BY <1>1, <1>2, <1>3 DEF NewestIsKept, TypeOK

LEMMA NewestStep ==
  ASSUME TypeOK, Holding, Owned, Slotted, NewestIsKept, [Next]_vars
  PROVE  NewestIsKept'
<1> USE BrokerAssumption DEF TypeOK, Goto, Hold
<1>1. CASE \E t \in Threads : Thread(t)
  <2> PICK t \in Threads : Thread(t)  BY <1>1
  <2>1. CASE LoginBegin(t)
    BY <2>1, NewestAside DEF LoginBegin, InHand, Logout, Refresh, provider
  <2>2. CASE LoginEnds(t)
    BY <2>2, NewestAside DEF LoginEnds, InHand, Logout, Refresh, provider
  <2>3. CASE LoginGranted(t)
    <3>1. PICK s \in Sessions \ Logins :
            /\ newest' = [newest EXCEPT ![s] = 1]
            /\ held' = [held EXCEPT ![t] = [session |-> s, access |-> 1, refresh |-> 1]]
      BY <2>3 DEF LoginGranted
    <3>2. issued[s] = 0 /\ s \in Sessions  BY <3>1 DEF Logins
    <3>3. ASSUME NEW c \in Credential, Known(c)
          PROVE  c.session # s /\ (Newest(c) => Newest(c)')
      BY <3>1, <3>2, <3>3, <2>3, RecordFields, NoneIsNoRecord DEF Known, Newest, LoginGranted
    <3>4. /\ \A u \in Threads \ {t} : held'[u] = held[u] /\ pc'[u] = pc[u]
          /\ pc[t] = "waiting" /\ pc'[t] = "loginSave"
          /\ UNCHANGED <<keychain, credential, lost>>
      BY <2>3, <3>1 DEF LoginGranted
    <3>5. Newest(held[t])'  BY <2>3, <3>1, <3>2 DEF Newest, LoginGranted
    <3>6. \A r : /\ Under(r, {"refreshSave"}) => Under(r, {"refreshSave"})'
                 /\ Under(r, {"refreshSave", "refreshSet"}) => Under(r, {"refreshSave", "refreshSet"})'
      BY <3>4 DEF Under
    <3>7. ASSUME NEW u \in Threads, pc'[u] \in InHand \ Logout PROVE Newest(held[u])'
      <4>1. CASE u = t BY <4>1, <3>5
      <4>2. CASE u # t
        <5>1. pc[u] \in InHand \ Logout /\ held[u] \in Credential /\ held'[u] = held[u]
          BY <4>2, <3>4, <3>7 DEF InHand, Logout, Refresh, Holding
        <5> QED BY <5>1, <3>3 DEF NewestIsKept, Owned
      <4> QED BY <4>1, <4>2
    <3> QED BY <3>3, <3>4, <3>6, <3>7 DEF NewestIsKept, Owned
  <2>4. CASE LoginSave(t)
    <3>1. CASE keychain' = held[t] /\ Goto(t, "loginSet") /\ UNCHANGED held
      <4>1. Newest(held[t])  BY <2>4 DEF LoginSave, NewestIsKept, InHand, Logout
      <4> QED BY <2>4, <3>1, <4>1 DEF LoginSave, NewestIsKept, Newest, Under, Rotated, InHand, Logout, Refresh, provider
    <3>2. CASE Goto(t, "idle") /\ Hold(t, None) /\ UNCHANGED keychain
      BY <2>4, <3>2, NewestAside DEF LoginSave, InHand, Logout, Refresh, provider
    <3> QED BY <2>4, <3>1, <3>2 DEF LoginSave
  <2>5. CASE LoginSet(t)
    <3>1. Newest(held[t])  BY <2>5 DEF LoginSet, NewestIsKept, InHand, Logout
    <3> QED BY <2>5, <3>1 DEF LoginSet, NewestIsKept, Newest, Under, InHand, Logout, Refresh, provider
  <2>6. CASE LogoutTake(t) \/ LogoutRevoke(t) \/ LogoutClear(t)
    BY <2>6, NewestAside DEF LogoutTake, LogoutRevoke, LogoutClear, InHand, Logout, Refresh, provider
  <2>7. CASE AdapterPost(t)
    BY <2>7, NewestAside DEF AdapterPost, InHand, Logout, Refresh, provider
  <2>8. CASE Check(t)
    BY <2>8, NewestAside DEF Check, Answer, InHand, Logout, Refresh, provider
  <2>9. CASE Clone(t)
    <3>1. CASE credential = None
      BY <2>9, <3>1, NewestAside DEF Clone, Answer, InHand, Logout, Refresh, provider
    <3>2. CASE credential # None
      <4>1. pc[t] = "clone" /\ pc' = [pc EXCEPT ![t] = "ask"] /\ held' = [held EXCEPT ![t] = credential]
            /\ UNCHANGED <<keychain, credential, newest, lost>>
        BY <2>9, <3>2 DEF Clone, provider
      <4>2. \A u \in Threads : pc[u] \notin {"refreshSave", "refreshSet"}
        BY <4>1 DEF Slotted, Complete, Refresh
      <4>3. Newest(credential)  BY <3>2, <4>2 DEF NewestIsKept, Under
      <4> QED BY <4>1, <4>3 DEF NewestIsKept, Newest, Under, InHand, Logout, Refresh
    <3> QED BY <3>1, <3>2
  <2>10. CASE AskFails(t)
    BY <2>10, NewestAside DEF AskFails, Answer, InHand, Logout, Refresh, provider
  <2>11. CASE AskGranted(t)
    <3>1. held[t] \in Credential /\ held[t].session \in Sessions /\ pc[t] = "ask"
          /\ held[t].refresh = newest[held[t].session] /\ UNCHANGED <<keychain, credential>>
      BY <2>11, AskGrantedCases, RecordFields
    <3> DEFINE s == held[t].session
    <3>2. PICK n \in Numbers, rotates \in BOOLEAN :
            /\ newest' = [newest EXCEPT ![s] = IF rotates THEN n ELSE @]
            /\ \/ /\ held' = [held EXCEPT ![t] = Refreshed(held[t], n, rotates)]
                  /\ pc' = [pc EXCEPT ![t] = "refreshSave"]
                  /\ UNCHANGED <<slot, gateway, lost>>
               \/ /\ Answer(t)
                  /\ lost' = IF rotates THEN lost \cup {s} ELSE lost
      BY <2>11, AskGrantedCases
    <3>3. \A u \in Threads \ {t} : held'[u] = held[u] /\ pc'[u] = pc[u]  BY <3>2 DEF Answer
    <3>4. \A c \in Credential : c.session # s /\ Newest(c) => Newest(c)'
      BY <3>1, <3>2, RecordFields DEF Newest
    <3>5. ASSUME NEW u \in Threads \ {t}, pc'[u] \in InHand \ Logout PROVE Newest(held[u])'
      <4>1. pc[u] = pc'[u] /\ pc[u] \in InHand \ Logout /\ held[u] \in Credential
        BY <3>3, <3>5 DEF InHand, Logout, Refresh, Holding
      <4>2. pc[u] \in {"loginSave", "loginSet"}
        BY <3>1, <4>1 DEF Slotted, Complete, InHand, Logout, Refresh
      <4>3. held[u].session # s
        BY <4>2, <3>1, <3>5, NoneIsNoRecord DEF Owned, OwnSession
      <4> QED BY <3>3, <3>4, <4>1, <4>3 DEF NewestIsKept
    <3>6. \A r : /\ Under(r, {"refreshSave"}) => Under(r, {"refreshSave"})'
                 /\ Under(r, {"refreshSave", "refreshSet"}) => Under(r, {"refreshSave", "refreshSet"})'
      BY <3>1, <3>3 DEF Under
    <3>7. CASE held' = [held EXCEPT ![t] = Refreshed(held[t], n, rotates)]
               /\ pc' = [pc EXCEPT ![t] = "refreshSave"] /\ UNCHANGED lost
      <4>1. /\ held'[t].session = s /\ held'[t].refresh = IF rotates THEN n ELSE held[t].refresh
            /\ held'[t].access = n
        BY <3>1, <3>7, RefreshedFields
      <4>2. Newest(held[t])'  BY <3>1, <3>2, <4>1 DEF Newest
      <4>3. ASSUME rotates, NEW r, r = s PROVE Under(r, {"refreshSave"})' /\ Under(r, {"refreshSave", "refreshSet"})'
        BY <3>7, <4>1, <4>3 DEF Under, Rotated
      <4>6. ~rotates => newest' = newest  BY <3>2
      <4>7. ~rotates => \A c \in Credential : Newest(c) => Newest(c)'  BY <3>7, <4>6 DEF Newest
      <4>4. \A u \in Threads : pc'[u] \in InHand \ Logout => Newest(held[u])'  BY <3>5, <4>2
      <4>5. \A c \in Credential :
              /\ Newest(c) \/ Under(c.session, {"refreshSave"})
                   => Newest(c)' \/ Under(c.session, {"refreshSave"})'
              /\ Newest(c) \/ Under(c.session, {"refreshSave", "refreshSet"})
                   => Newest(c)' \/ Under(c.session, {"refreshSave", "refreshSet"})'
        BY <3>4, <3>6, <4>3, <4>7
      <4> QED BY <3>1, <4>4, <4>5 DEF NewestIsKept
    <3>8. CASE Answer(t) /\ lost' = IF rotates THEN lost \cup {s} ELSE lost
      <4>1. \A c \in Credential : Newest(c) => Newest(c)'
        BY <3>1, <3>2, <3>4, <3>8, RecordFields DEF Newest
      <4>2. pc'[t] \notin InHand  BY <3>8 DEF Answer, InHand, Logout, Refresh
      <4> QED BY <3>1, <3>5, <3>6, <4>1, <4>2 DEF NewestIsKept
    <3> QED BY <3>2, <3>7, <3>8
  <2>12. CASE RefreshSave(t)
    <3>1. held[t] \in Credential /\ held[t].session \in Sessions /\ Newest(held[t])
      BY <2>12, RecordFields DEF RefreshSave, Holding, Refresh, NewestIsKept, InHand, Logout
    <3>2. UNCHANGED <<newest, credential>> /\ pc[t] = "refreshSave"  BY <2>12 DEF RefreshSave, provider
    <3>3. CASE keychain' = held[t] /\ Goto(t, "refreshSet") /\ UNCHANGED <<held, lost>>
      BY <3>1, <3>2, <3>3 DEF NewestIsKept, Newest, Under, InHand, Logout, Refresh
    <3>4. CASE /\ Answer(t) /\ UNCHANGED keychain
               /\ lost' = IF Rotated(held[t]) THEN lost \cup {held[t].session} ELSE lost
      <4>1. \A c : Newest(c) => Newest(c)'  BY <3>2, <3>4 DEF Newest
      <4>2. /\ \A u \in Threads \ {t} : held'[u] = held[u] /\ pc'[u] = pc[u]
            /\ pc'[t] \notin InHand
        BY <3>4 DEF Answer, InHand, Logout, Refresh
      <4>3. \A c : Under(c.session, {"refreshSave"}) => Newest(c)' \/ Under(c.session, {"refreshSave"})'
        BY <3>2, <3>4, <4>2 DEF Under, Newest
      <4>4. \A c : Under(c.session, {"refreshSave", "refreshSet"})
                     => Newest(c)' \/ Under(c.session, {"refreshSave", "refreshSet"})'
        BY <3>2, <3>4, <4>2 DEF Under, Newest
      <4> QED BY <3>2, <3>4, <4>1, <4>2, <4>3, <4>4 DEF NewestIsKept
    <3> QED BY <2>12, <3>3, <3>4 DEF RefreshSave
  <2>13. CASE RefreshSet(t)
    <3>1. Newest(held[t])  BY <2>13 DEF RefreshSet, NewestIsKept, InHand, Logout, Refresh
    <3> QED BY <2>13, <3>1 DEF RefreshSet, NewestIsKept, Newest, Under, InHand, Logout, Refresh, provider
  <2>14. CASE Use(t) \/ Generate(t)
    BY <2>14, NewestAside DEF Use, Generate, Answer, InHand, Logout, Refresh, provider
  <2> QED BY <2>1, <2>2, <2>3, <2>4, <2>5, <2>6, <2>7, <2>8, <2>9, <2>10, <2>11, <2>12, <2>13,
             <2>14 DEF Thread
<1>2. CASE AdapterStatus \/ AdapterTimeout \/ Expires
  BY <1>2 DEF AdapterStatus, AdapterTimeout, Expires, provider, NewestIsKept, Newest, Under
<1>3. CASE Restart
  <2>1. /\ credential' = keychain /\ UNCHANGED <<keychain, newest>>
        /\ \A u \in Threads : pc'[u] = "idle"
        /\ lost' = lost \cup {held[t].session : t \in {u \in Threads : pc[u] = "refreshSave" /\ Rotated(held[u])}}
    BY <1>3 DEF Restart, provider
  <2>2. keychain # None => Newest(keychain)'  BY <2>1 DEF NewestIsKept, Newest, Under
  <2> QED BY <2>1, <2>2 DEF NewestIsKept, InHand, Logout, Refresh
<1>4. CASE UNCHANGED vars BY <1>4 DEF vars, provider, NewestIsKept, Newest, Under
<1> QED BY <1>1, <1>2, <1>3, <1>4 DEF Next

\* A refresh token that is kept, or presented, is the newest of its session,
\* unless that one was lost on its way to the keychain.
THEOREM NewestKept == Spec => []NewestIsKept
<1>1. Init => Owned /\ Slotted /\ NewestIsKept
  BY DEF Init, Owned, Known, OwnSession, Slotted, Complete, Refresh, NewestIsKept, InHand, Logout
<1>2. TypeOK /\ Holding /\ Owned /\ Slotted /\ NewestIsKept /\ [Next]_vars
        => TypeOK' /\ Holding' /\ Owned' /\ Slotted' /\ NewestIsKept'
  BY TypeStep, SlottedStep, OwnedStep, NewestStep
<1> QED BY TypeInit, <1>1, <1>2, PTL DEF Spec

-----------------------------------------------------------------------------
(* One credential in hand at a time *)

Saved == {"loginSet", "refreshSet"}

\* While no two threads had a credential in hand: memory lags the keychain only
\* between the two writes of one thread, and after a logout there is nothing
\* but a login that has not stored its record.
Sole ==
  ~raced =>
    /\ \A t, u \in Threads : pc[t] \in InHand /\ pc[u] \in InHand => t = u
    /\ \A t \in Threads : pc[t] \in Logout => credential = None
    /\ \A t \in Threads : pc[t] \in Saved => keychain = held[t]
    /\ credential # None /\ (\A t \in Threads : pc[t] \notin Saved) => credential = keychain
    /\ out => /\ credential = None /\ keychain = None
              /\ \A t \in Threads : pc[t] \in InHand => pc[t] \in {"loginSave", "clear"}

\* A thread that leaves the records alone and is not past its keychain write.
LEMMA SoleAside ==
  ASSUME TypeOK, Sole, NEW t \in Threads, pc[t] \notin Saved, pc'[t] \notin InHand,
         \A u \in Threads \ {t} : pc'[u] = pc[u] /\ held'[u] = held[u],
         UNCHANGED <<keychain, credential, out, raced>>
  PROVE  Sole'
BY DEF TypeOK, Sole, Saved, InHand, Logout, Refresh

\* A thread that takes a credential in hand, with something to sign in with.
LEMMA SoleEnters ==
  ASSUME TypeOK, Sole, NEW t \in Threads, pc[t] \notin InHand,
         pc'[t] = "loginSave" \/ (pc'[t] = "ask" /\ credential # None),
         \A u \in Threads \ {t} : pc'[u] = pc[u] /\ held'[u] = held[u],
         UNCHANGED <<keychain, credential, out>>, Touch(t)
  PROVE  Sole'
<1> SUFFICES ASSUME ~raced' PROVE Sole'  BY DEF Sole
<1>1. ~raced /\ \A u \in Threads \ {t} : pc[u] \notin InHand /\ pc'[u] \notin InHand  BY DEF Touch, TypeOK
<1>2. pc'[t] \notin Saved /\ pc'[t] \notin Logout  BY DEF Saved, Logout
<1>3. \A u \in Threads : pc[u] \notin Saved /\ pc'[u] \notin Saved /\ pc'[u] \notin Logout
  BY <1>1, <1>2 DEF Saved, InHand, Refresh
<1> QED BY <1>1, <1>3 DEF Sole

LEMMA SoleStep ==
  ASSUME TypeOK, Holding, Sole, [Next]_vars
  PROVE  Sole'
<1> USE BrokerAssumption DEF TypeOK, Goto, Hold
<1>1. CASE \E t \in Threads : Thread(t)
  <2> PICK t \in Threads : Thread(t)  BY <1>1
  <2>1. CASE LoginBegin(t)
    BY <2>1, SoleAside DEF LoginBegin, InHand, Logout, Refresh, Saved
  <2>2. CASE LoginEnds(t)
    BY <2>2, SoleAside DEF LoginEnds, InHand, Logout, Refresh, Saved
  <2>3. CASE LoginGranted(t)
    BY <2>3, SoleEnters DEF LoginGranted, InHand, Logout, Refresh
  <2>4. CASE LoginSave(t)
    <3>1. CASE keychain' = held[t] /\ Goto(t, "loginSet") /\ out' = FALSE /\ UNCHANGED held
      BY <2>4, <3>1 DEF LoginSave, Sole, Saved, InHand, Logout, Refresh
    <3>2. CASE Goto(t, "idle") /\ Hold(t, None) /\ UNCHANGED <<keychain, out>>
      BY <2>4, <3>2, SoleAside DEF LoginSave, InHand, Logout, Refresh, Saved
    <3> QED BY <2>4, <3>1, <3>2 DEF LoginSave
  <2>5. CASE LoginSet(t)
    BY <2>5 DEF LoginSet, Sole, Saved, InHand, Logout, Refresh
  <2>6. CASE LogoutTake(t)
    <3>1. /\ pc[t] = "idle" /\ credential' = None /\ UNCHANGED <<keychain, out>>
          /\ pc' = [pc EXCEPT ![t] = IF credential = None THEN "clear" ELSE "revoke"]
          /\ held' = [held EXCEPT ![t] = credential]
          /\ raced' = (raced \/ \E u \in Threads \ {t} : pc[u] \in InHand)
      BY <2>6 DEF LogoutTake, Touch
    <3> SUFFICES ASSUME ~raced' PROVE Sole'  BY DEF Sole
    <3>2. ~raced /\ \A u \in Threads \ {t} : pc[u] \notin InHand /\ pc'[u] = pc[u]  BY <3>1
    <3>3. \A u \in Threads : pc'[u] \notin Saved
      BY <3>1, <3>2 DEF Saved, InHand, Refresh
    <3>4. out => credential = None /\ keychain = None  BY <3>2 DEF Sole
    <3>5. out' => pc'[t] = "clear"  BY <3>1, <3>4
    <3> QED BY <3>1, <3>2, <3>3, <3>4, <3>5 DEF Sole
  <2>7. CASE LogoutRevoke(t)
    BY <2>7 DEF LogoutRevoke, Sole, Saved, InHand, Logout, Refresh
  <2>8. CASE LogoutClear(t)
    BY <2>8 DEF LogoutClear, Sole, Saved, InHand, Logout, Refresh
  <2>9. CASE AdapterPost(t)
    BY <2>9, SoleAside DEF AdapterPost, InHand, Logout, Refresh, Saved
  <2>10. CASE Check(t)
    BY <2>10, SoleAside DEF Check, Answer, InHand, Logout, Refresh, Saved
  <2>11. CASE Clone(t)
    <3>1. CASE credential = None
      BY <2>11, <3>1, SoleAside DEF Clone, Answer, InHand, Logout, Refresh, Saved
    <3>2. CASE credential # None
      <4>1. /\ pc[t] = "clone" /\ pc' = [pc EXCEPT ![t] = "ask"]
            /\ held' = [held EXCEPT ![t] = credential] /\ Touch(t)
            /\ UNCHANGED <<keychain, credential, out>>
        BY <2>11, <3>2 DEF Clone
      <4>2. pc[t] \notin InHand /\ pc'[t] = "ask"
            /\ \A u \in Threads \ {t} : pc'[u] = pc[u] /\ held'[u] = held[u]
        BY <4>1 DEF InHand, Logout, Refresh
      <4> QED BY <3>2, <4>1, <4>2, SoleEnters
    <3> QED BY <3>1, <3>2
  <2>12. CASE AskFails(t)
    BY <2>12, SoleAside DEF AskFails, Answer, InHand, Logout, Refresh, Saved
  <2>13. CASE AskGranted(t)
    <3>1. /\ pc[t] = "ask" /\ UNCHANGED <<keychain, credential, out, raced>>
          /\ \A u \in Threads \ {t} : pc'[u] = pc[u] /\ held'[u] = held[u]
          /\ pc'[t] \in {"idle", "refreshSave"}
      BY <2>13, AskGrantedCases DEF Answer
    <3> QED BY <3>1 DEF Sole, Saved, InHand, Logout, Refresh
  <2>14. CASE RefreshSave(t)
    <3>1. CASE keychain' = held[t] /\ Goto(t, "refreshSet") /\ UNCHANGED held
      BY <2>14, <3>1 DEF RefreshSave, Sole, Saved, InHand, Logout, Refresh
    <3>2. CASE Answer(t) /\ UNCHANGED keychain
      BY <2>14, <3>2, SoleAside DEF RefreshSave, Answer, InHand, Logout, Refresh, Saved
    <3> QED BY <2>14, <3>1, <3>2 DEF RefreshSave
  <2>15. CASE RefreshSet(t)
    BY <2>15 DEF RefreshSet, Sole, Saved, InHand, Logout, Refresh
  <2>16. CASE Use(t) \/ Generate(t)
    BY <2>16, SoleAside DEF Use, Generate, Answer, InHand, Logout, Refresh, Saved
  <2> QED BY <2>1, <2>2, <2>3, <2>4, <2>5, <2>6, <2>7, <2>8, <2>9, <2>10, <2>11, <2>12, <2>13,
             <2>14, <2>15, <2>16 DEF Thread
<1>2. CASE AdapterStatus \/ AdapterTimeout \/ Expires
  BY <1>2 DEF AdapterStatus, AdapterTimeout, Expires, Sole
<1>3. CASE Restart
  BY <1>3 DEF Restart, Sole, Saved, InHand, Logout, Refresh
<1>4. CASE UNCHANGED vars BY <1>4 DEF vars, Sole
<1> QED BY <1>1, <1>2, <1>3, <1>4 DEF Next

LEMMA SoleAlways == Spec => [](TypeOK /\ Sole)
<1>1. Init => Sole  BY DEF Init, Sole, Saved, InHand, Logout, Refresh
<1> QED BY TypeInit, TypeStep, SoleStep, <1>1, PTL DEF Spec

\* Unless two threads had a credential in hand at once, memory is signed in as
\* the keychain is whenever none has.
THEOREM RestartKeeps == Spec => []RestartKeepsSignIn
<1>1. Sole => RestartKeepsSignIn  BY DEF Sole, RestartKeepsSignIn, Saved, InHand, Logout, Refresh
<1> QED BY SoleAlways, <1>1, PTL

\* Unless two threads had a credential in hand at once, a logout that succeeded
\* leaves nobody signed in, before and after a restart.
THEOREM SignedOut == Spec => []SignedOutStays
<1>1. Sole => SignedOutStays  BY DEF Sole, SignedOutStays
<1> QED BY SoleAlways, <1>1, PTL

-----------------------------------------------------------------------------
(* The local model workers *)

\* What reading and writing does to pipes and results.
LEMMA Empties ==
  <<>> \in Inboxes /\ <<>> \in Outboxes /\ <<>> \in Asked /\ <<>> \in Heard /\ <<>> \in Results
  /\ Len(<<>>) = 0
BY EmptySeq DEF Inboxes, Outboxes, Asked, Heard, Results

LEMMA Writes ==
  /\ \A s \in Inboxes, x \in Ids : Append(s, x) \in Inboxes
  /\ \A s \in Outboxes, x \in Lines : Append(s, x) \in Outboxes
  /\ \A s \in Asked, x \in Chunks : Append(s, x) \in Asked
  /\ \A s \in Heard, x \in GemmaLines : Append(s, x) \in Heard
BY AppendProperties DEF Inboxes, Outboxes, Asked, Heard

LEMMA Reads ==
  /\ \A s \in Inboxes : s # <<>> => Head(s) \in Ids /\ Tail(s) \in Inboxes
  /\ \A s \in Outboxes : s # <<>> => Head(s) \in Lines /\ Tail(s) \in Outboxes
  /\ \A s \in Asked : s # <<>> => Head(s) \in Chunks /\ Tail(s) \in Asked
  /\ \A s \in Heard : s # <<>> => Head(s) \in GemmaLines /\ Tail(s) \in Heard
BY HeadTailProperties DEF Inboxes, Outboxes, Asked, Heard

LEMMA Rests ==
  ASSUME NEW s \in Outboxes, s # <<>>
  PROVE  /\ Len(s) \in Nat \ {0} /\ Len(Tail(s)) \in Nat /\ Len(Tail(s)) = Len(s) - 1
         /\ Len(s) > 1 => Tail(s) # <<>>
<1>1. Len(s) \in Nat \ {0}  BY EmptySeq, LenProperties DEF Outboxes
<1>2. Tail(s) \in Outboxes /\ Len(Tail(s)) = Len(s) - 1  BY HeadTailProperties DEF Outboxes
<1>3. Len(Tail(s)) \in Nat  BY <1>1, <1>2
<1>4. Len(<<>>) = 0  BY Empties
<1>5. Len(s) > 1 => Tail(s) # <<>>
  <2>1. Tail(s) = <<>> => Len(Tail(s)) = 0  BY <1>4
  <2>2. Len(s) > 1 => Len(Tail(s)) # 0  BY <1>1, <1>2
  <2> QED BY <2>1, <2>2
<1> QED BY <1>1, <1>2, <1>3, <1>5

LEMMA Tried ==
  \A s \in Results, x \in Chunks \cup {Failed} :
    /\ Append(s, x) \in Results /\ Len(s) \in Nat /\ Len(Append(s, x)) = Len(s) + 1
    /\ \A i \in 1..Len(s) : Append(s, x)[i] = s[i]
    /\ Append(s, x)[Len(s) + 1] = x
BY AppendProperties, LenProperties DEF Results

LEMMA FailedIsNoChunk == \A r \in Ids, k \in Nat : Failed # <<r, k>>
  BY WorkerAssumption DEF Failed, Ids

LEMMA NoiseIsALine == Noise \in Lines /\ Noise \in GemmaLines
  BY DEF Lines, GemmaLines

LEMMA FailureIsALine == \A r \in Ids : Failure(r) \in Lines
  BY DEF Lines

LEMMA AnalysisIsALine ==
  ASSUME NEW r \in Ids, NEW s \in Results, NEW n \in 1..MaxChunks
  PROVE  Analysis(r, s, n) \in Lines
BY DEF Lines, Analysis

LEMMA AnalysisFields ==
  ASSUME NEW l \in Lines, l.is = "analysis"
  PROVE  l.id \in Ids /\ l.chunks \in Results /\ l.planned \in 1..MaxChunks
BY DEF Lines, Noise, Failure

\* The requests callers wait for have numbers; the worker is at a chunk of the
\* request it works on.
Shape ==
  /\ \A c \in Callers : phase[c] # "idle" => request[c] \in Ids
  /\ working # 0 => plan \in 1..MaxChunks /\ Len(done) <= plan
  /\ working = 0 => done = <<>>
  /\ waits => working # 0 /\ Len(done) < plan /\ kind = "structure"
  /\ cut => outbox # <<>>

\* What is written makes a line, alone or with the text before it.
LEMMA PutsType ==
  ASSUME WorkerTypeOK, Shape, NEW l \in Lines, Puts(l)
  PROVE  /\ outbox' \in Outboxes /\ seen' \in Nat /\ outbox' # <<>>
         /\ outbox' = outbox \/ outbox' = Append(outbox, l)
<1>1. CASE cut
  <2>1. Len(outbox) \in Nat \ {0}  BY <1>1, EmptySeq, LenProperties DEF Shape, WorkerTypeOK, Outboxes
  <2> QED BY <1>1, <2>1 DEF Puts, Shape, WorkerTypeOK
<1>2. CASE ~cut
  <2>1. outbox' = Append(outbox, l) /\ seen' = seen  BY <1>2 DEF Puts
  <2>2. Append(outbox, l) \in Outboxes /\ Append(outbox, l) # <<>>
    BY AppendProperties, EmptySeq, LenProperties DEF WorkerTypeOK, Outboxes
  <2> QED BY <2>1, <2>2 DEF WorkerTypeOK
<1> QED BY <1>1, <1>2

\* A line that leaves keeps the rest in shape.
LEMMA TakesType ==
  ASSUME WorkerTypeOK, WholeLine, TakesLine
  PROVE  outbox' \in Outboxes /\ seen' \in Nat /\ cut' \in BOOLEAN /\ (cut' => outbox' # <<>>)
<1>1. outbox # <<>>  BY Empties DEF WholeLine
<1>2. /\ Tail(outbox) \in Outboxes /\ Len(Tail(outbox)) \in Nat
      /\ Len(outbox) > 1 => Tail(outbox) # <<>>
  BY <1>1, Reads, Rests DEF WorkerTypeOK
<1>3. seen' \in Nat
  <2>1. CASE seen > 0 BY <2>1 DEF TakesLine, WorkerTypeOK
  <2>2. CASE ~(seen > 0) BY <1>2, <2>2 DEF TakesLine, WorkerTypeOK
  <2> QED BY <2>1, <2>2
<1>4. outbox' = Tail(outbox) /\ cut' = (cut /\ Len(outbox) > 1)  BY DEF TakesLine
<1>5. cut' \in BOOLEAN /\ (cut' => Len(outbox) > 1)  BY <1>4
<1> QED BY <1>2, <1>3, <1>4, <1>5

-----------------------------------------------------------------------------
LEMMA WorkerTypeInit == WorkerInit => WorkerTypeOK /\ Shape
<1> SUFFICES ASSUME WorkerInit PROVE WorkerTypeOK /\ Shape  OBVIOUS
<1>1. /\ inbox \in Inboxes /\ outbox \in Outboxes /\ toGemma \in Asked /\ fromGemma \in Heard
      /\ done \in Results
  BY Empties DEF WorkerInit
<1>2. answers \subseteq Analyses  BY DEF WorkerInit
<1>3. working = 0 /\ plan = 0 /\ done = <<>> /\ waits = FALSE /\ requests = 0 /\ faults = 0 /\ hung = FALSE
      /\ seen = 0 /\ cut = FALSE
  BY DEF WorkerInit
<1>4. working \in 0..MaxRequests /\ plan \in 0..MaxChunks /\ requests \in 0..MaxRequests
      /\ faults \in 0..MaxFaults
  BY <1>3, WorkerAssumption
<1>5. /\ phase \in [Callers -> {"idle", "waiting", "writing", "reading"}] /\ kind \in Kinds
      /\ lock \in Callers \cup {Nobody} /\ worker \in {"none", "up", "dead"} /\ gemma \in {"none", "up", "dead"}
  BY DEF WorkerInit
<1>6. request \in [Callers -> 0..MaxRequests]  BY WorkerAssumption DEF WorkerInit
<1>7. Shape  BY <1>3 DEF WorkerInit, Shape
<1> QED BY <1>1, <1>2, <1>3, <1>4, <1>5, <1>6, <1>7 DEF WorkerTypeOK

LEMMA ClearType ==
  ASSUME Clear
  PROVE  /\ inbox' \in Inboxes /\ outbox' \in Outboxes /\ working' \in 0..MaxRequests
         /\ plan' \in 0..MaxChunks /\ done' \in Results /\ waits' \in BOOLEAN
         /\ toGemma' \in Asked /\ fromGemma' \in Heard /\ hung' \in BOOLEAN
         /\ working' = 0 /\ done' = <<>> /\ ~waits'
         /\ seen' \in Nat /\ cut' \in BOOLEAN /\ ~cut'
<1>1. inbox' = <<>> /\ outbox' = <<>> /\ working' = 0 /\ plan' = 0 /\ done' = <<>> /\ waits' = FALSE
      /\ toGemma' = <<>> /\ fromGemma' = <<>> /\ hung' = FALSE /\ seen' = 0 /\ cut' = FALSE
  BY DEF Clear
<1>2. 0 \in 0..MaxRequests /\ 0 \in 0..MaxChunks  BY WorkerAssumption
<1> QED BY <1>1, <1>2, Empties

LEMMA TypeClient ==
  ASSUME WorkerTypeOK, Shape, NEW c \in Callers,
         \/ Call(c) \/ Enter(c) \/ EnterFails(c) \/ Write(c) \/ WriteFails(c)
         \/ Read(c) \/ ReadEof(c) \/ Timeout(c)
  PROVE  WorkerTypeOK' /\ Shape'
<1> USE WorkerAssumption DEF WorkerTypeOK, Shape, client, work, pipes, printed, Return
<1>1. CASE Call(c)
  <2>1. requests + 1 \in Ids  BY <1>1 DEF Call, Ids
  <2>2. requests' \in 0..MaxRequests /\ request' \in [Callers -> 0..MaxRequests]
    BY <1>1, <2>1 DEF Call, Ids
  <2>3. \A d \in Callers : phase'[d] # "idle" => request'[d] \in Ids  BY <1>1, <2>1 DEF Call
  <2> QED BY <1>1, <2>2, <2>3 DEF Call
<1>2. CASE Enter(c)
  <2>1. CASE worker = "up" BY <1>2, <2>1 DEF Enter, Start
  <2>2. CASE worker # "up" BY <1>2, <2>2, ClearType DEF Enter, Start
  <2> QED BY <2>1, <2>2
<1>3. CASE EnterFails(c) BY <1>3 DEF EnterFails
<1>4. CASE Write(c)
  <2>1. inbox' \in Inboxes  BY <1>4, Writes DEF Write
  <2> QED BY <1>4, <2>1 DEF Write
<1>5. CASE WriteFails(c) BY <1>5, ClearType DEF WriteFails, Close
<1>6. CASE ReadEof(c) BY <1>6, ClearType DEF ReadEof, Close
<1>7. CASE Timeout(c) BY <1>7, ClearType DEF Timeout, Close
<1>8. CASE Read(c)
  <2> DEFINE line == Head(outbox)
  <2>0. WholeLine /\ outbox # <<>>  BY <1>8, Empties DEF Read, WholeLine
  <2>1. line \in Lines  BY <2>0, Reads
  <2>2. CASE line = Noise /\ EndsOnNoise
    BY <1>8, <2>2, ClearType DEF Read, Close
  <2>3. CASE line = Noise /\ ~EndsOnNoise
    <3>1. /\ phase' = [phase EXCEPT ![c] = "idle"] /\ request' = [request EXCEPT ![c] = 0] /\ lock' = Nobody
          /\ UNCHANGED <<kind, requests, faults, answers>> /\ TakesLine
      BY <1>8, <2>3 DEF Read
    <3>2. outbox' \in Outboxes /\ seen' \in Nat /\ cut' \in BOOLEAN /\ (cut' => outbox' # <<>>)
      BY <2>0, <3>1, TakesType
    <3> QED BY <3>1, <3>2 DEF TakesLine, Keep
  <2>4. CASE line # Noise
    <3>1. Accepts(c, line) => line.chunks \in Results /\ line.planned \in 1..MaxChunks
      BY <2>1, AnalysisFields DEF Accepts
    <3>2. request[c] \in Ids  BY <1>8 DEF Read
    <3>3. Accepts(c, line) =>
            [id |-> request[c], chunks |-> line.chunks, planned |-> line.planned] \in Analyses
      BY <3>1, <3>2 DEF Analyses
    <3>4. answers' \subseteq Analyses  BY <1>8, <2>4, <3>3 DEF Read
    <3>5. /\ phase' = [phase EXCEPT ![c] = "idle"] /\ request' = [request EXCEPT ![c] = 0] /\ lock' = Nobody
          /\ UNCHANGED <<kind, requests, faults>> /\ TakesLine
      BY <1>8, <2>4 DEF Read
    <3>6. outbox' \in Outboxes /\ seen' \in Nat /\ cut' \in BOOLEAN /\ (cut' => outbox' # <<>>)
      BY <2>0, <3>5, TakesType
    <3> QED BY <3>4, <3>5, <3>6 DEF TakesLine, Keep
  <2> QED BY <2>2, <2>3, <2>4
<1> QED BY <1>1, <1>2, <1>3, <1>4, <1>5, <1>6, <1>7, <1>8

LEMMA TypeWorker ==
  ASSUME WorkerTypeOK, Shape, Take \/ AskGemma \/ HearGemma \/ GemmaGenerates \/ Generates \/ Reply
  PROVE  WorkerTypeOK' /\ Shape'
<1> USE WorkerAssumption DEF WorkerTypeOK, Shape, client, work, pipes, printed
<1>1. CASE Take
  <2>1. Head(inbox) \in Ids /\ Tail(inbox) \in Inboxes  BY <1>1, Reads DEF Take
  <2>2. CASE /\ working' = Head(inbox) /\ done' = <<>> /\ UNCHANGED printed
             /\ plan' \in IF kind = "structure" THEN 1..MaxChunks ELSE {1}
    BY <1>1, <2>1, <2>2, Empties DEF Take, Ids
  <2>3. CASE Prints(Failure(Head(inbox))) /\ UNCHANGED <<working, plan, done>>
    <3>1. outbox' \in Outboxes /\ seen' \in Nat /\ cut' = FALSE
      BY <2>1, <2>3, FailureIsALine, PutsType DEF Prints
    <3> QED BY <1>1, <2>1, <2>3, <3>1 DEF Take
  <2> QED BY <1>1, <2>2, <2>3 DEF Take
<1>2. CASE AskGemma
  <2>1. <<working, Following>> \in Chunks  BY <1>2, Tried DEF AskGemma, Busy, Following, Chunks, Ids
  <2>2. Append(done, Failed) \in Results /\ Len(Append(done, Failed)) <= plan
    BY <1>2, Tried DEF AskGemma, Busy
  <2>3. Append(toGemma, <<working, Following>>) \in Asked  BY <2>1, Writes
  <2> QED BY <1>2, <2>2, <2>3 DEF AskGemma, Busy
<1>3. CASE HearGemma
  <2>1. <<working, Following>> \in Chunks  BY <1>3, Tried DEF HearGemma, Following, Chunks, Ids
  <2>2. \A l : Candidate(l) \in Chunks \cup {Failed}  BY <2>1 DEF Candidate
  <2>3. \E x \in Chunks \cup {Failed} : done' = Append(done, x)  BY <1>3, <2>2 DEF HearGemma
  <2>4. done' \in Results /\ Len(done') <= plan  BY <1>3, <2>3, Tried DEF HearGemma
  <2>5. fromGemma' \in Heard  BY <1>3, Reads DEF HearGemma
  <2> QED BY <1>3, <2>4, <2>5 DEF HearGemma
<1>4. CASE GemmaGenerates
  <2>1. Head(toGemma) \in Chunks /\ Tail(toGemma) \in Asked  BY <1>4, Reads DEF GemmaGenerates
  <2>2. \A o \in {"failure", "candidate"} : [is |-> o, id |-> Head(toGemma)] \in GemmaLines
    BY <2>1 DEF GemmaLines
  <2>3. \A x \in GemmaLines : Append(fromGemma, x) \in Heard  BY Writes
  <2>4. fromGemma' \in Heard  BY <1>4, <2>2, <2>3 DEF GemmaGenerates
  <2> QED BY <1>4, <2>1, <2>4 DEF GemmaGenerates
<1>5. CASE Generates
  <2>1. <<working, 1>> \in Chunks  BY <1>5 DEF Generates, Busy, Chunks, Ids
  <2>2. \A x \in Chunks \cup {Failed} : <<x>> \in Results /\ Len(<<x>>) = 1
    BY DEF Results
  <2>3. done' \in Results /\ Len(done') = 1  BY <1>5, <2>1, <2>2 DEF Generates
  <2>4. /\ working # 0 /\ plan \in 1..MaxChunks
        /\ UNCHANGED <<kind, phase, request, lock, worker, inbox, outbox, seen, cut, working, plan, waits, gemma,
                       toGemma, fromGemma, hung, answers, requests, faults>>
    BY <1>5 DEF Generates, Busy
  <2>5. ~waits  BY <1>5 DEF Generates
  <2> QED BY <2>3, <2>4, <2>5
<1>6. CASE Reply
  <2>1. working \in Ids /\ plan \in 1..MaxChunks  BY <1>6 DEF Reply, Ids
  <2>2. Answered \in Lines  BY <2>1, FailureIsALine, AnalysisIsALine DEF Answered
  <2>3. outbox' \in Outboxes /\ seen' \in Nat /\ cut' = FALSE  BY <1>6, <2>2, PutsType DEF Reply, Prints
  <2>4. 0 \in 0..MaxRequests /\ 0 \in 0..MaxChunks  OBVIOUS
  <2>5. ~waits
    <3>1. Len(done) = plan /\ plan \in Nat  BY <1>6 DEF Reply
    <3> QED BY <3>1
  <2>6. /\ working' = 0 /\ plan' = 0 /\ done' = <<>>
        /\ UNCHANGED <<kind, phase, request, lock, worker, inbox, waits, gemma, toGemma, fromGemma, hung,
                       answers, requests, faults>>
    BY <1>6 DEF Reply
  <2> QED BY <2>3, <2>4, <2>5, <2>6, Empties
<1> QED BY <1>1, <1>2, <1>3, <1>4, <1>5, <1>6

LEMMA TypeFault ==
  ASSUME WorkerTypeOK, Shape, WorkerDies \/ GemmaDies \/ WorkerPrints \/ GemmaPrints \/ Hangs
  PROVE  WorkerTypeOK' /\ Shape'
<1> USE WorkerAssumption DEF WorkerTypeOK, Shape, client, work, pipes, printed, Fault
<1>2. CASE WorkerDies
  <2>1. Prints(Noise) => outbox' \in Outboxes /\ seen' \in Nat /\ cut' = FALSE
    BY NoiseIsALine, PutsType DEF Prints
  <2>2. outbox' \in Outboxes /\ seen' \in Nat /\ cut' \in BOOLEAN /\ (cut' => outbox' # <<>>)
    <3>1. CASE UNCHANGED <<outbox, seen, cut>>  BY <3>1
    <3>2. CASE Prints(Noise)  BY <2>1, <3>2
    <3> QED BY <1>2, <3>1, <3>2 DEF WorkerDies
  <2>3. inbox' \in Inboxes /\ done' \in Results /\ toGemma' \in Asked /\ fromGemma' \in Heard
    BY <1>2, Empties DEF WorkerDies
  <2>4. /\ working' = 0 /\ plan' = 0 /\ done' = <<>> /\ waits' = FALSE /\ hung' = FALSE
        /\ worker' = "dead" /\ gemma' = "none" /\ faults' = faults + 1 /\ faults < MaxFaults
        /\ UNCHANGED <<kind, phase, request, lock, answers, requests>>
    BY <1>2 DEF WorkerDies
  <2>5. working' \in 0..MaxRequests /\ plan' \in 0..MaxChunks /\ faults' \in 0..MaxFaults
    BY <2>4
  <2>6. Shape'  BY <2>2, <2>4
  <2> QED BY <2>2, <2>3, <2>4, <2>5, <2>6
<1>3. CASE GemmaDies
  <2>1. Append(fromGemma, Noise) \in Heard  BY NoiseIsALine, Writes
  <2>2. fromGemma' \in Heard /\ toGemma' \in Asked  BY <1>3, <2>1, Empties DEF GemmaDies
  <2>3. /\ gemma' = "dead" /\ faults' = faults + 1 /\ faults < MaxFaults
        /\ UNCHANGED <<kind, phase, request, lock, worker, inbox, outbox, seen, cut, working, plan, done, waits,
                       hung, answers, requests>>
    BY <1>3 DEF GemmaDies
  <2> QED BY <2>2, <2>3
<1>4. CASE WorkerPrints
  <2>1. outbox' \in Outboxes /\ seen' \in Nat /\ outbox' # <<>> /\ cut' \in BOOLEAN
    BY <1>4, NoiseIsALine, PutsType DEF WorkerPrints
  <2> QED BY <1>4, <2>1 DEF WorkerPrints
<1>5. CASE GemmaPrints
  <2>1. Append(fromGemma, Noise) \in Heard  BY NoiseIsALine, Writes
  <2> QED BY <1>5, <2>1 DEF GemmaPrints
<1>6. CASE Hangs BY <1>6 DEF Hangs
<1> QED BY <1>2, <1>3, <1>4, <1>5, <1>6

LEMMA WorkerTypeStep == WorkerTypeOK /\ Shape /\ [WorkerNext]_workerVars => WorkerTypeOK' /\ Shape'
<1> SUFFICES ASSUME WorkerTypeOK, Shape, [WorkerNext]_workerVars PROVE WorkerTypeOK' /\ Shape'  OBVIOUS
<1>1. CASE WorkerNext BY <1>1, TypeClient, TypeWorker, TypeFault DEF WorkerNext
<1>2. CASE UNCHANGED workerVars BY <1>2 DEF workerVars, client, work, pipes, printed, WorkerTypeOK, Shape
<1> QED BY <1>1, <1>2

\* Every variable has its type, in every step.
THEOREM WorkerTypeCorrect == WorkerSpec => []WorkerTypeOK
BY WorkerTypeInit, WorkerTypeStep, PTL DEF WorkerSpec

-----------------------------------------------------------------------------
(* An analysis is that of the request it answers *)

Whole(a) == a.chunks = [k \in 1..a.planned |-> <<a.id, k>>]

OwnLines(lines) == \A i \in 1..Len(lines) : lines[i].is = "analysis" => Whole(lines[i])

OwnWork == \A k \in 1..Len(done) : done[k] = Failed \/ done[k] = <<working, k>>

Own == OwnWork /\ OwnLines(outbox) /\ AnswersAreOwn

LEMMA OwnAppend ==
  ASSUME NEW lines \in Outboxes, OwnLines(lines), NEW l \in Lines, l.is = "analysis" => Whole(l)
  PROVE  OwnLines(Append(lines, l))
<1> USE DEF Outboxes
<1>1. /\ Len(Append(lines, l)) = Len(lines) + 1 /\ Len(lines) \in Nat
      /\ \A i \in 1..Len(lines) : Append(lines, l)[i] = lines[i]
      /\ Append(lines, l)[Len(lines) + 1] = l
  BY AppendProperties, LenProperties
<1>2. \A i \in 1..Len(Append(lines, l)) : i \in 1..Len(lines) \/ i = Len(lines) + 1  BY <1>1
<1> QED BY <1>1, <1>2 DEF OwnLines

\* What is written behind a text without newline is lost in it.
LEMMA OwnPuts ==
  ASSUME WorkerTypeOK, OwnLines(outbox), NEW l \in Lines, l.is = "analysis" => Whole(l), Puts(l)
  PROVE  OwnLines(outbox')
BY OwnAppend DEF Puts, WorkerTypeOK

LEMMA OwnTail ==
  ASSUME NEW lines \in Outboxes, OwnLines(lines), lines # <<>>
  PROVE  OwnLines(Tail(lines)) /\ (Head(lines).is = "analysis" => Whole(Head(lines)))
<1> USE DEF Outboxes
<1>1. Len(lines) \in Nat \ {0}  BY EmptySeq
<1>2. Len(Tail(lines)) = Len(lines) - 1 /\ \A i \in 1..Len(Tail(lines)) : Tail(lines)[i] = lines[i + 1]
  BY HeadTailProperties
<1>3. \A i \in 1..Len(Tail(lines)) : i + 1 \in 1..Len(lines)  BY <1>1, <1>2
<1>4. Head(lines) = lines[1] /\ 1 \in 1..Len(lines)  BY <1>1
<1> QED BY <1>2, <1>3, <1>4 DEF OwnLines

LEMMA OwnEmpty == OwnLines(<<>>) /\ \A k \in 1..Len(<<>>) : FALSE
  BY Empties DEF OwnLines

\* One more chunk tried.
LEMMA OwnTried ==
  ASSUME WorkerTypeOK, OwnWork, NEW x \in Chunks \cup {Failed}, x = Failed \/ x = <<working, Len(done) + 1>>,
         done' = Append(done, x), working' = working
  PROVE  OwnWork'
<1>1. /\ Len(done') = Len(done) + 1 /\ Len(done) \in Nat
      /\ \A k \in 1..Len(done) : done'[k] = done[k]
      /\ done'[Len(done) + 1] = x
  BY Tried DEF WorkerTypeOK
<1>2. \A k \in 1..Len(done') : k \in 1..Len(done) \/ k = Len(done) + 1  BY <1>1
<1> QED BY <1>1, <1>2 DEF OwnWork

LEMMA OwnClear ==
  ASSUME Clear PROVE OwnWork' /\ OwnLines(outbox')
<1>1. done' = <<>> /\ outbox' = <<>>  BY DEF Clear
<1> QED BY <1>1, OwnEmpty DEF OwnWork

LEMMA OwnClient ==
  ASSUME WorkerTypeOK, Shape, Own, NEW c \in Callers,
         \/ Call(c) \/ Enter(c) \/ EnterFails(c) \/ Write(c) \/ WriteFails(c)
         \/ Read(c) \/ ReadEof(c) \/ Timeout(c)
  PROVE  Own'
<1> USE DEF Own, AnswersAreOwn, OwnWork, work, printed
<1>1. CASE Call(c) \/ EnterFails(c) \/ Write(c)  BY <1>1 DEF Call, EnterFails, Write
<1>2. CASE Enter(c)
  <2>1. CASE worker = "up" BY <1>2, <2>1 DEF Enter, Start
  <2>2. CASE worker # "up" BY <1>2, <2>2, OwnClear DEF Enter, Start
  <2> QED BY <2>1, <2>2
<1>3. CASE WriteFails(c) \/ ReadEof(c) \/ Timeout(c)
  BY <1>3, OwnClear DEF WriteFails, ReadEof, Timeout, Close
<1>4. CASE Read(c)
  <2> DEFINE line == Head(outbox)
  <2>1. line \in Lines /\ OwnLines(Tail(outbox)) /\ (line.is = "analysis" => Whole(line))
    BY <1>4, Reads, OwnTail, Empties DEF Read, WholeLine, WorkerTypeOK
  <2>2. CASE line = Noise /\ EndsOnNoise BY <1>4, <2>2, OwnClear DEF Read, Close
  <2>3. CASE line = Noise /\ ~EndsOnNoise
    <3>1. outbox' = Tail(outbox) /\ UNCHANGED <<done, working, answers>>  BY <1>4, <2>3 DEF Read, TakesLine, Keep
    <3> QED BY <2>1, <3>1
  <2>4. CASE line # Noise
    <3>1. outbox' = Tail(outbox) /\ UNCHANGED <<done, working>>  BY <1>4, <2>4 DEF Read, TakesLine, Keep
    <3>2. Accepts(c, line) => line.is = "analysis" /\ line.id = request[c]  BY DEF Accepts
    <3>3. ASSUME NEW a \in answers' PROVE a.chunks = [k \in 1..a.planned |-> <<a.id, k>>]
      <4>1. CASE a \in answers BY <4>1
      <4>2. CASE a \notin answers
        <5>1. Accepts(c, line)
              /\ a = [id |-> request[c], chunks |-> line.chunks, planned |-> line.planned]
          BY <1>4, <2>4, <3>3, <4>2 DEF Read
        <5>2. a.id = line.id /\ a.chunks = line.chunks /\ a.planned = line.planned  BY <3>2, <5>1
        <5> QED BY <2>1, <3>2, <5>1, <5>2 DEF Whole
      <4> QED BY <4>1, <4>2
    <3> QED BY <2>1, <3>1, <3>3
  <2> QED BY <2>2, <2>3, <2>4
<1> QED BY <1>1, <1>2, <1>3, <1>4

LEMMA OwnWorker ==
  ASSUME WorkerTypeOK, Shape, Own, Take \/ AskGemma \/ HearGemma \/ GemmaGenerates \/ Generates \/ Reply
  PROVE  Own'
<1> USE DEF Own, AnswersAreOwn, work, printed
<1>1. CASE Take
  <2>1. CASE done' = <<>> /\ UNCHANGED printed
    BY <1>1, <2>1, OwnEmpty DEF Take, OwnWork
  <2>2. CASE Prints(Failure(Head(inbox))) /\ UNCHANGED <<working, plan, done>>
    <3>1. Failure(Head(inbox)) \in Lines /\ Failure(Head(inbox)).is # "analysis"
      BY <1>1, Reads, FailureIsALine DEF Take, WorkerTypeOK, Failure
    <3>2. OwnLines(outbox')  BY <2>2, <3>1, OwnPuts DEF Prints
    <3> QED BY <1>1, <2>2, <3>2 DEF Take, OwnWork
  <2> QED BY <1>1, <2>1, <2>2 DEF Take
<1>2. CASE AskGemma
  <2>1. OwnWork'
    <3>1. CASE done' = Append(done, Failed) BY <1>2, <3>1, OwnTried DEF AskGemma
    <3>2. CASE UNCHANGED done BY <1>2, <3>2 DEF AskGemma, OwnWork
    <3> QED BY <1>2, <3>1, <3>2 DEF AskGemma
  <2> QED BY <1>2, <2>1 DEF AskGemma
<1>3. CASE HearGemma
  <2>1. PICK x : done' = Append(done, x) /\ (x = Failed \/ x = <<working, Following>>)
    BY <1>3 DEF HearGemma, Candidate
  <2>2. <<working, Following>> \in Chunks
    BY <1>3, Tried, WorkerAssumption DEF HearGemma, Shape, Following, Chunks, Ids, WorkerTypeOK
  <2>3. OwnWork'  BY <1>3, <2>1, <2>2, OwnTried DEF HearGemma, Following
  <2> QED BY <1>3, <2>3 DEF HearGemma
<1>4. CASE GemmaGenerates BY <1>4 DEF GemmaGenerates, OwnWork
<1>5. CASE Generates
  <2>1. \E x : done' = <<x>> /\ (x = Failed \/ x = <<working, 1>>)  BY <1>5 DEF Generates
  <2>2. OwnWork'  BY <1>5, <2>1 DEF Generates, OwnWork
  <2> QED BY <1>5, <2>2 DEF Generates
<1>6. CASE Reply
  <2>1. working \in Ids /\ plan \in 1..MaxChunks /\ Len(done) = plan /\ done \in Results
    BY <1>6, WorkerAssumption DEF Reply, Shape, WorkerTypeOK, Ids
  <2>2. Answered \in Lines  BY <2>1, FailureIsALine, AnalysisIsALine DEF Answered
  <2>3. ASSUME Answered.is = "analysis" PROVE Whole(Answered)
    <3>1. \A k \in 1..Len(done) : done[k] = <<working, k>>
      BY <2>3 DEF Answered, Failure, OwnWork
    <3>2. Answered = Analysis(working, done, plan)  BY <2>3 DEF Answered, Failure
    <3>3. done = [k \in 1..plan |-> <<working, k>>]
      BY <2>1, <3>1, LenProperties DEF Results
    <3> QED BY <3>2, <3>3 DEF Whole, Analysis
  <2>4. OwnLines(outbox')  BY <1>6, <2>2, <2>3, OwnPuts DEF Reply, Prints
  <2>5. OwnWork'  BY <1>6, OwnEmpty DEF Reply, OwnWork
  <2> QED BY <1>6, <2>4, <2>5 DEF Reply
<1> QED BY <1>1, <1>2, <1>3, <1>4, <1>5, <1>6

LEMMA OwnFault ==
  ASSUME WorkerTypeOK, Own, WorkerDies \/ GemmaDies \/ WorkerPrints \/ GemmaPrints \/ Hangs
  PROVE  Own'
<1>1. Puts(Noise) => OwnLines(outbox')  BY NoiseIsALine, OwnPuts DEF Own, Noise
<1> USE DEF Own, AnswersAreOwn, work, printed
<1>2. CASE WorkerDies
  <2>1. (UNCHANGED outbox \/ Puts(Noise)) /\ done' = <<>> /\ UNCHANGED answers
    BY <1>2 DEF WorkerDies, Prints
  <2>2. OwnWork'  BY <2>1, OwnEmpty DEF OwnWork
  <2> QED BY <1>1, <2>1, <2>2
<1>3. CASE WorkerPrints BY <1>1, <1>3 DEF WorkerPrints, OwnWork
<1>4. CASE GemmaDies \/ GemmaPrints \/ Hangs BY <1>4 DEF GemmaDies, GemmaPrints, Hangs, OwnWork
<1> QED BY <1>2, <1>3, <1>4

LEMMA OwnStep == WorkerTypeOK /\ Shape /\ Own /\ [WorkerNext]_workerVars => Own'
<1> SUFFICES ASSUME WorkerTypeOK, Shape, Own, [WorkerNext]_workerVars PROVE Own'  OBVIOUS
<1>1. CASE WorkerNext BY <1>1, OwnClient, OwnWorker, OwnFault DEF WorkerNext
<1>2. CASE UNCHANGED workerVars BY <1>2 DEF workerVars, work, printed, Own, OwnWork, AnswersAreOwn
<1> QED BY <1>1, <1>2

\* An analysis that a call returns was computed from its own text.
THEOREM OwnAnswers == WorkerSpec => []AnswersAreOwn
<1>1. WorkerInit => Own
  <2>1. WorkerInit => done = <<>> /\ outbox = <<>> /\ answers = {}  BY DEF WorkerInit
  <2> QED BY <2>1, OwnEmpty DEF Own, OwnWork, AnswersAreOwn
<1>2. Own => AnswersAreOwn  BY DEF Own
<1> QED BY WorkerTypeInit, WorkerTypeStep, OwnStep, <1>1, <1>2, PTL DEF WorkerSpec

-----------------------------------------------------------------------------
(* A client that closes on what it cannot read stays in step *)

Locked == \A c \in Callers : phase[c] \in {"writing", "reading"} => lock = c

OnlyNoise(lines) == \A i \in 1..Len(lines) : lines[i] = Noise

OneLine(lines) ==
  \E i \in 1..Len(lines) :
    lines[i] # Noise /\ \A j \in 1..Len(lines) : j # i => lines[j] = Noise

\* A request is unread, worked on, answered, or its answer spoiled, and there is
\* no other.
Pending ==
  \/ (\E r : inbox = <<r>>) /\ working = 0 /\ OnlyNoise(outbox)
  \/ inbox = <<>> /\ working # 0 /\ OnlyNoise(outbox)
  \/ inbox = <<>> /\ working = 0 /\ OneLine(outbox)
  \/ inbox = <<>> /\ working = 0 /\ OnlyNoise(outbox)

Quiet == inbox = <<>> /\ working = 0 /\ OnlyNoise(outbox)

Reading == \E c \in Callers : phase[c] = "reading"

Synced == kind # "document" /\ worker = "up" => (Reading => Pending) /\ (~Reading => Quiet)

LEMMA NoiseAppend ==
  ASSUME NEW lines \in Outboxes, NEW l \in Lines
  PROVE  /\ OnlyNoise(lines) /\ l = Noise => OnlyNoise(Append(lines, l))
         /\ OneLine(lines) /\ l = Noise => OneLine(Append(lines, l))
         /\ OnlyNoise(lines) /\ l # Noise => OneLine(Append(lines, l))
<1> USE DEF Outboxes
<1>1. /\ Len(Append(lines, l)) = Len(lines) + 1 /\ Len(lines) \in Nat
      /\ \A i \in 1..Len(lines) : Append(lines, l)[i] = lines[i]
      /\ Append(lines, l)[Len(lines) + 1] = l
  BY AppendProperties, LenProperties
<1>2. \A i \in 1..Len(Append(lines, l)) : i \in 1..Len(lines) \/ i = Len(lines) + 1  BY <1>1
<1>3. \A i \in 1..Len(lines) : i \in 1..Len(Append(lines, l)) /\ i # Len(lines) + 1  BY <1>1
<1>4. Len(lines) + 1 \in 1..Len(Append(lines, l))  BY <1>1
<1>5. OnlyNoise(lines) /\ l = Noise => OnlyNoise(Append(lines, l))  BY <1>1, <1>2 DEF OnlyNoise
<1>6. OneLine(lines) /\ l = Noise => OneLine(Append(lines, l))
  BY <1>1, <1>2, <1>3 DEF OneLine
<1>7. OnlyNoise(lines) /\ l # Noise => OneLine(Append(lines, l))
  BY <1>1, <1>2, <1>3, <1>4 DEF OneLine, OnlyNoise
<1> QED BY <1>5, <1>6, <1>7

LEMMA NoisePuts ==
  ASSUME WorkerTypeOK, NEW l \in Lines, Puts(l)
  PROVE  /\ OnlyNoise(outbox) /\ l = Noise => OnlyNoise(outbox')
         /\ OneLine(outbox) /\ l = Noise => OneLine(outbox')
         /\ OnlyNoise(outbox) => OneLine(outbox') \/ OnlyNoise(outbox')
<1>1. outbox' = outbox \/ outbox' = Append(outbox, l)  BY DEF Puts
<1> QED BY <1>1, NoiseAppend DEF WorkerTypeOK

LEMMA NoiseTail ==
  ASSUME NEW lines \in Outboxes, lines # <<>>, Head(lines) # Noise
  PROVE  ~OnlyNoise(lines) /\ (OneLine(lines) => OnlyNoise(Tail(lines)))
<1> USE DEF Outboxes
<1>1. Len(lines) \in Nat \ {0}  BY EmptySeq
<1>2. Len(Tail(lines)) = Len(lines) - 1 /\ \A i \in 1..Len(Tail(lines)) : Tail(lines)[i] = lines[i + 1]
  BY HeadTailProperties
<1>3. \A i \in 1..Len(Tail(lines)) : i + 1 \in 1..Len(lines) /\ i + 1 # 1  BY <1>1, <1>2
<1>4. lines[1] # Noise /\ 1 \in 1..Len(lines)  BY <1>1
<1> QED BY <1>2, <1>3, <1>4 DEF OnlyNoise, OneLine

LEMMA NoiseEmpty == OnlyNoise(<<>>)
  BY Empties DEF OnlyNoise

LEMMA LockedStep == WorkerTypeOK /\ Locked /\ [WorkerNext]_workerVars => Locked'
<1> SUFFICES ASSUME WorkerTypeOK, Locked, [WorkerNext]_workerVars PROVE Locked'  OBVIOUS
<1> USE WorkerAssumption DEF Locked, WorkerTypeOK, client, Return
<1>1. ASSUME NEW c \in Callers,
             \/ Call(c) \/ Enter(c) \/ EnterFails(c) \/ Write(c) \/ WriteFails(c)
             \/ Read(c) \/ ReadEof(c) \/ Timeout(c)
      PROVE  Locked'
  BY <1>1 DEF Call, Enter, EnterFails, Write, WriteFails, Read, ReadEof, Timeout
<1>2. CASE Take \/ AskGemma \/ HearGemma \/ GemmaGenerates \/ Generates \/ Reply
  BY <1>2 DEF Take, AskGemma, HearGemma, GemmaGenerates, Generates, Reply
<1>3. CASE WorkerDies \/ GemmaDies \/ WorkerPrints \/ GemmaPrints \/ Hangs
  BY <1>3 DEF WorkerDies, GemmaDies, WorkerPrints, GemmaPrints, Hangs
<1>4. CASE UNCHANGED workerVars BY <1>4 DEF workerVars
<1> QED BY <1>1, <1>2, <1>3, <1>4 DEF WorkerNext

\* A client is of one kind for good.
LEMMA KindStays == [WorkerNext]_workerVars => kind' = kind
<1>1. ASSUME NEW c \in Callers, Call(c) \/ Enter(c) \/ EnterFails(c) \/ Write(c) PROVE kind' = kind
  BY <1>1 DEF Call, Enter, EnterFails, Write
<1>2. ASSUME NEW c \in Callers, WriteFails(c) \/ Read(c) \/ ReadEof(c) \/ Timeout(c) PROVE kind' = kind
  BY <1>2 DEF WriteFails, Read, ReadEof, Timeout
<1>3. CASE Take \/ AskGemma \/ HearGemma \/ GemmaGenerates \/ Generates \/ Reply
  BY <1>3 DEF Take, AskGemma, HearGemma, GemmaGenerates, Generates, Reply
<1>4. CASE WorkerDies \/ GemmaDies \/ WorkerPrints \/ GemmaPrints \/ Hangs
  BY <1>4 DEF WorkerDies, GemmaDies, WorkerPrints, GemmaPrints, Hangs
<1>5. CASE UNCHANGED workerVars  BY <1>5 DEF workerVars
<1>6. CASE WorkerNext  BY <1>1, <1>2, <1>3, <1>4, <1>6 DEF WorkerNext
<1> QED BY <1>5, <1>6

LEMMA SyncedStep == WorkerTypeOK /\ Shape /\ Locked /\ Synced /\ [WorkerNext]_workerVars => Synced'
<1> SUFFICES ASSUME WorkerTypeOK, Shape, Locked, Synced, [WorkerNext]_workerVars PROVE Synced'  OBVIOUS
<1>0. kind' = kind  BY KindStays
<1> SUFFICES ASSUME kind # "document", worker' = "up"
             PROVE  (Reading' => Pending') /\ (~Reading' => Quiet')
  BY <1>0 DEF Synced
<1> USE DEF client, work, printed, Return
<1>1. ASSUME UNCHANGED <<phase, worker, inbox, working, outbox>> PROVE (Reading' => Pending') /\ (~Reading' => Quiet')
  BY <1>1 DEF Synced, Reading, Pending, Quiet, OnlyNoise, OneLine
<1>2. ASSUME NEW c \in Callers, Call(c) \/ EnterFails(c)
      PROVE  (Reading' => Pending') /\ (~Reading' => Quiet')
  <2>1. (Reading' <=> Reading) /\ UNCHANGED <<worker, inbox, working, outbox>>
    BY <1>2 DEF Call, EnterFails, Reading, WorkerTypeOK
  <2> QED BY <2>1 DEF Synced, Pending, Quiet, OnlyNoise, OneLine
<1>3. ASSUME NEW c \in Callers, Enter(c) PROVE (Reading' => Pending') /\ (~Reading' => Quiet')
  <2>1. ~Reading /\ ~Reading'  BY <1>3, WorkerAssumption DEF Enter, Reading, Locked, WorkerTypeOK
  <2>2. CASE worker = "up" BY <1>3, <2>1, <2>2 DEF Enter, Start, Synced, Quiet, OnlyNoise
  <2>3. CASE worker # "up" BY <1>3, <2>1, <2>3, NoiseEmpty DEF Enter, Start, Clear, Quiet
  <2> QED BY <2>1, <2>2, <2>3
<1>4. ASSUME NEW c \in Callers, Write(c) PROVE (Reading' => Pending') /\ (~Reading' => Quiet')
  <2>1. ~Reading /\ Reading' /\ worker = "up"  BY <1>4 DEF Write, Reading, Locked, WorkerTypeOK
  <2>2. Quiet  BY <2>1 DEF Synced
  <2>3. inbox' = Append(<<>>, request[c]) /\ UNCHANGED <<working, outbox>>  BY <1>4, <2>2 DEF Write, Quiet
  <2> QED BY <2>1, <2>2, <2>3 DEF Quiet, Pending, OnlyNoise
<1>5. ASSUME NEW c \in Callers, WriteFails(c) \/ ReadEof(c) \/ Timeout(c) PROVE FALSE
  BY <1>5 DEF WriteFails, ReadEof, Timeout, Close
<1>6. ASSUME NEW c \in Callers, Read(c) PROVE (Reading' => Pending') /\ (~Reading' => Quiet')
  <2>1. Head(outbox) # Noise  BY <1>6 DEF Read, EndsOnNoise, Close
  <2>2. Reading /\ ~Reading' /\ outbox # <<>> /\ UNCHANGED <<worker, inbox, working>> /\ outbox' = Tail(outbox)
    BY <1>6, <2>1, WorkerAssumption, Empties DEF Read, Reading, Locked, WorkerTypeOK, WholeLine, TakesLine, Keep
  <2>3. inbox = <<>> /\ working = 0 /\ OneLine(outbox)
    BY <2>1, <2>2, NoiseTail DEF Synced, Pending, WorkerTypeOK
  <2>4. OnlyNoise(Tail(outbox))  BY <2>1, <2>2, <2>3, NoiseTail DEF WorkerTypeOK
  <2> QED BY <2>2, <2>3, <2>4 DEF Quiet
<1>7. CASE Take
  <2>1. inbox # <<>> /\ working = 0 /\ worker = "up" /\ UNCHANGED phase  BY <1>7 DEF Take
  <2>2. Reading /\ Reading' /\ (\E r : inbox = <<r>>) /\ OnlyNoise(outbox)
    BY <2>1 DEF Synced, Pending, Quiet, Reading
  <2>3. inbox' = <<>>  BY <1>7, <2>2 DEF Take
  <2>4. CASE working' = Head(inbox) /\ UNCHANGED printed
    <3>1. working' # 0  BY <2>1, <2>4, Reads, WorkerAssumption DEF WorkerTypeOK, Ids
    <3> QED BY <2>2, <2>3, <2>4, <3>1 DEF Pending, OnlyNoise
  <2>5. CASE Prints(Failure(Head(inbox))) /\ UNCHANGED working
    <3>1. Failure(Head(inbox)) \in Lines  BY <2>1, Reads, FailureIsALine DEF WorkerTypeOK
    <3>2. OneLine(outbox') \/ OnlyNoise(outbox')  BY <2>2, <2>5, <3>1, NoisePuts DEF Prints
    <3> QED BY <2>1, <2>2, <2>3, <2>5, <3>2 DEF Pending
  <2> QED BY <1>7, <2>4, <2>5 DEF Take
<1>8. CASE AskGemma \/ HearGemma \/ GemmaGenerates \/ Generates
  BY <1>1, <1>8 DEF AskGemma, HearGemma, GemmaGenerates, Generates
<1>9. CASE Reply
  <2>1. working # 0 /\ worker = "up" /\ UNCHANGED <<phase, inbox>> /\ working' = 0  BY <1>9 DEF Reply
  <2>2. Reading /\ Reading' /\ inbox = <<>> /\ OnlyNoise(outbox)
    BY <2>1 DEF Synced, Pending, Quiet, Reading
  <2>3. working \in Ids /\ plan \in 1..MaxChunks /\ done \in Results
    BY <2>1, WorkerAssumption DEF Shape, WorkerTypeOK, Ids
  <2>4. Answered \in Lines  BY <2>3, FailureIsALine, AnalysisIsALine DEF Answered
  <2>5. OneLine(outbox') \/ OnlyNoise(outbox')  BY <1>9, <2>2, <2>4, NoisePuts DEF Reply, Prints
  <2> QED BY <2>1, <2>2, <2>5 DEF Pending
<1>10. CASE WorkerPrints
  <2>1. worker = "up" /\ UNCHANGED <<phase, inbox, working>> /\ Puts(Noise)
    BY <1>10 DEF WorkerPrints
  <2>2. /\ OnlyNoise(outbox) => OnlyNoise(outbox')
        /\ OneLine(outbox) => OneLine(outbox')
    BY <2>1, NoiseIsALine, NoisePuts
  <2>3. Reading' <=> Reading  BY <2>1 DEF Reading
  <2> QED BY <2>1, <2>2, <2>3 DEF Synced, Pending, Quiet
<1>11. CASE WorkerDies BY <1>11 DEF WorkerDies
<1>12. CASE GemmaDies \/ GemmaPrints \/ Hangs
  BY <1>1, <1>12 DEF GemmaDies, GemmaPrints, Hangs
<1>13. CASE UNCHANGED workerVars BY <1>1, <1>13 DEF workerVars
<1> QED BY <1>2, <1>3, <1>4, <1>5, <1>6, <1>7, <1>8, <1>9, <1>10, <1>11, <1>12, <1>13 DEF WorkerNext

\* Between two calls nothing of an earlier one is on its way any more, except in
\* the document client.
THEOREM StaysInStep == WorkerSpec => []InStep
<1>1. WorkerInit => Locked /\ Synced  BY DEF WorkerInit, Locked, Synced
<1>2. Synced => InStep  BY DEF Synced, InStep, Reading, Quiet, OnlyNoise
<1> QED BY WorkerTypeInit, WorkerTypeStep, LockedStep, SyncedStep, <1>1, <1>2, PTL DEF WorkerSpec
=============================================================================
