---------------------------- MODULE LiveHubProofs ----------------------------
(***************************************************************************)
(* Safety of the live-query hub, for any number of requests, live queries, *)
(* connections and notifications.                                          *)
(***************************************************************************)
EXTENDS LiveHub, FiniteSetTheorems, TLAPS

States == {"unused", "live", "doomed", "dead"}

\* A live query that was started stays one; this is all the invariant needs
\* of the other end.
Ages == /\ stream' \in [Streams -> States]
        /\ \A s \in Streams : stream'[s] = "unused" => stream[s] = "unused"

\* The set that RefsExact counts is finite.
LEMMA UsersFinite == \A s : IsFiniteSet(Users(s)) /\ Cardinality(Users(s)) \in Nat
<1> TAKE s
<1>1. Users(s) \in SUBSET Clients
  BY DEF Users
<1>2. IsFiniteSet(Users(s))
  BY <1>1, HubAssumption, FS_Subset DEF HubAssumption
<1> QED
  BY <1>2, FS_CardinalityType

\* Requests that neither attach nor detach leave the users of s as they are.
LEMMA UsersKept ==
  ASSUME NEW s,
         \A h \in Clients : Attached(h)' /\ mine'[h] = s <=>
                            Attached(h) /\ mine[h] = s
  PROVE  Users(s)' = Users(s)
BY DEF Users

\* The initial states satisfy the inductive invariant.
LEMMA InitRegistry == Init => RegistryInv
BY HubAssumption
   DEF HubAssumption, Init, RegistryInv, HubType, Points, LockHeldInside,
       AttachedRegistered, Attached, RefsExact, KillsOnlyUnused,
       RegisteredApart, UnregisteredApart, At, Killing, StartingApart,
       Starting, UnusedUncounted

\* Steps of the Manager, of the server and of the fan-out goroutines.
LEMMA EnvironmentKeeps ==
  ASSUME RegistryInv, Ages, UNCHANGED <<holder, subs, refs, query, pc, mine>>
  PROVE  RegistryInv'
<1>1. \A s : Users(s)' = Users(s)
  BY UsersKept DEF Attached
<1>2. HubType' /\ LockHeldInside' /\ AttachedRegistered'
  BY DEF RegistryInv, HubType, Ages, States, LockHeldInside, AttachedRegistered,
         Attached
<1>3. RefsExact' /\ KillsOnlyUnused'
  BY <1>1 DEF RegistryInv, RefsExact, KillsOnlyUnused
<1>4. RegisteredApart' /\ UnregisteredApart' /\ StartingApart' /\ UnusedUncounted'
  BY DEF RegistryInv, HubType, Ages, States, RegisteredApart, UnregisteredApart, At,
         Killing, StartingApart, Starting, UnusedUncounted
<1> QED
  BY <1>2, <1>3, <1>4 DEF RegistryInv

\* Steps of a request that neither attach nor detach it and leave the
\* registry alone.
LEMMA MoveKeeps ==
  ASSUME RegistryInv, Ages, LockHeldInside',
         NEW g \in Clients, NEW p \in Points \ {"notif"}, Goto(g, p),
         holder' \in Clients \cup {NoClient},
         UNCHANGED <<subs, refs, query, mine>>,
         Attached(g) <=> p \in {"streaming", "leaving"},
         p \in {"killget", "kill"} => Killing(g),
         p \in {"get", "live"} => subs[query[g]] = NoStream
  PROVE  RegistryInv'
<1> USE DEF RegistryInv, HubType, Goto, At, Attached
<1>1. \A s : Users(s)' = Users(s)
  BY UsersKept
<1>2. HubType' /\ AttachedRegistered'
  BY DEF Ages, States, AttachedRegistered
<1>3. RefsExact' /\ KillsOnlyUnused'
  BY <1>1 DEF RefsExact, KillsOnlyUnused, Killing
<1>4. RegisteredApart' /\ UnregisteredApart'
  BY DEF Ages, States, RegisteredApart, UnregisteredApart, Killing
<1>5. StartingApart' /\ UnusedUncounted'
  BY DEF Ages, States, StartingApart, Starting, Killing, UnusedUncounted
<1> QED
  BY <1>2, <1>3, <1>4, <1>5

\* subscribe takes the lock, makes its calls and fails.
LEMMA SubscribeMoves ==
  ASSUME RegistryInv, NEW g \in Clients,
         \/ Request(g) \/ StartFirst(g) \/ SubscribeGet(g)
         \/ SubscribeGetFailed(g) \/ StartLiveFailed(g)
         \/ OpenNotificationsFailed(g)
  PROVE  RegistryInv'
<1> USE HubAssumption
    DEF HubAssumption, RegistryInv, HubType, Goto, At, Attached, LockHeldInside,
        Ages, States, Points, hubVars, streamVars, fanVars
<1>1. CASE Request(g)
  BY <1>1, MoveKeeps DEF Request
<1>2. CASE StartFirst(g)
  BY <1>2, MoveKeeps DEF StartFirst
<1>3. CASE SubscribeGet(g)
  <2>1. subs[query[g]] = NoStream
    BY <1>3 DEF SubscribeGet, StartingApart, Starting
  <2> QED
    BY <1>3, <2>1, MoveKeeps DEF SubscribeGet
<1>4. CASE SubscribeGetFailed(g)
  BY <1>4, MoveKeeps DEF SubscribeGetFailed, Fail, Unlock
<1>5. CASE StartLiveFailed(g)
  BY <1>5, MoveKeeps DEF StartLiveFailed, Fail, Unlock, ServerStarts
<1>6. CASE OpenNotificationsFailed(g)
  BY <1>6, MoveKeeps DEF OpenNotificationsFailed, Fail, Unlock, Killed, Running
<1> QED
  BY <1>1, <1>2, <1>3, <1>4, <1>5, <1>6

\* The event loop ends, and the last unsubscribe makes its calls.
LEMMA EndMoves ==
  ASSUME RegistryInv, NEW g \in Clients,
         \/ Leave(g) \/ WriteFailed(g)
         \/ KillGet(g) \/ KillGetFailed(g) \/ Kill(g)
  PROVE  RegistryInv'
<1> USE HubAssumption
    DEF HubAssumption, RegistryInv, HubType, Goto, At, Attached, LockHeldInside,
        Killing, Ages, States, Points, hubVars, streamVars, fanVars
<1>1. CASE Leave(g) \/ WriteFailed(g)
  BY <1>1, MoveKeeps DEF Leave, WriteFailed
<1>2. CASE KillGet(g) \/ KillGetFailed(g)
  BY <1>2, MoveKeeps DEF KillGet, KillGetFailed
<1>3. CASE Kill(g)
  BY <1>3, MoveKeeps DEF Kill, Killed, Running
<1> QED
  BY <1>1, <1>2, <1>3

\* A request joins the live query that is registered.
LEMMA ReuseKeeps ==
  ASSUME RegistryInv, NEW g \in Clients, Reuse(g)
  PROVE  RegistryInv'
<1> USE DEF RegistryInv, HubType, At, Attached
<1>1. PICK t \in Streams :
      /\ t = subs[query[g]] /\ stream[t] # "unused" /\ pc[g] = "lock"
      /\ pc' = [pc EXCEPT ![g] = "streaming"]
      /\ refs' = [refs EXCEPT ![t] = @ + 1]
      /\ mine' = [mine EXCEPT ![g] = t]
      /\ UNCHANGED <<holder, subs, query, stream>>
  BY DEF RegisteredApart, Reuse, Join, Goto, streamVars
<1>2. Users(t)' = Users(t) \cup {g} /\ g \notin Users(t)
  BY <1>1 DEF Users
<1>3. \A s : s # t => Users(s)' = Users(s)
  BY <1>1 DEF Users
<1>4. HubType' /\ LockHeldInside' /\ AttachedRegistered'
  BY <1>1, HubAssumption
     DEF HubAssumption, Points, LockHeldInside, AttachedRegistered
<1>5. RefsExact'
  <2>0. Cardinality(Users(t) \cup {g}) = Cardinality(Users(t)) + 1
    BY <1>2, UsersFinite, FS_AddElement
  <2>1. refs'[t] = Cardinality(Users(t)') /\ Users(t)' # {}
    BY <1>1, <1>2, <2>0, HubAssumption DEF HubAssumption, RefsExact
  <2>2. ASSUME NEW n \in Names, NEW r \in Streams, r = subs[n], r # t
        PROVE  refs'[r] = Cardinality(Users(r)') /\ Users(r)' # {}
    BY <1>1, <1>3, <2>2, HubAssumption DEF HubAssumption, RefsExact
  <2> QED
    BY <1>1, <2>1, <2>2 DEF RefsExact
<1>6. KillsOnlyUnused'
  BY <1>1, <1>3 DEF KillsOnlyUnused, UnregisteredApart, Killing
<1>7. RegisteredApart' /\ UnregisteredApart' /\ StartingApart' /\ UnusedUncounted'
  BY <1>1 DEF RegisteredApart, UnregisteredApart, StartingApart, Starting,
              Killing, UnusedUncounted
<1> QED
  BY <1>4, <1>5, <1>6, <1>7

\* The server starts a live query that nobody knows yet.
LEMMA StartLiveKeeps ==
  ASSUME RegistryInv, NEW g \in Clients, StartLive(g)
  PROVE  RegistryInv'
<1> USE DEF RegistryInv, HubType, Goto, At, Attached, hubVars, fanVars
<1>1. PICK s \in Streams : ServerStarts(g, s) /\ mine' = [mine EXCEPT ![g] = s]
  BY DEF StartLive
<1>2. /\ pc[g] = "live" /\ pc' = [pc EXCEPT ![g] = "notif"]
      /\ UNCHANGED <<holder, subs, refs, query>>
  BY DEF StartLive
<1>3. /\ stream[s] = "unused" /\ stream'[s] \in {"live", "doomed"}
      /\ stream' \in [Streams -> {"unused", "live", "doomed", "dead"}]
      /\ \A r \in Streams : r # s => stream'[r] = stream[r]
  BY <1>1 DEF ServerStarts
<1>4. \A r : Users(r)' = Users(r)
  BY <1>1, <1>2, UsersKept
<1>5. HubType' /\ LockHeldInside' /\ AttachedRegistered'
  BY <1>1, <1>2, <1>3 DEF Points, LockHeldInside, AttachedRegistered
<1>6. RefsExact' /\ KillsOnlyUnused'
  BY <1>1, <1>2, <1>4 DEF RefsExact, KillsOnlyUnused
<1>7. RegisteredApart' /\ UnusedUncounted'
  BY <1>2, <1>3 DEF RegisteredApart, UnusedUncounted
<1>8. UnregisteredApart'
  <2> SUFFICES ASSUME NEW h \in Clients, At(h, "notif")' \/ Killing(h)'
               PROVE  /\ mine'[h] \in Streams /\ stream'[mine'[h]] # "unused"
                      /\ \A n \in Names : subs'[n] # mine'[h]
    BY DEF UnregisteredApart
  <2>1. CASE h = g
    BY <1>1, <1>2, <1>3, <2>1, HubAssumption DEF HubAssumption, RegisteredApart
  <2>2. CASE h # g
    BY <1>1, <1>2, <1>3, <2>2 DEF UnregisteredApart, Killing
  <2> QED
    BY <2>1, <2>2
<1>9. StartingApart'
  BY <1>1, <1>2, <1>3
     DEF StartingApart, Starting, Killing, UnregisteredApart, UnusedUncounted,
         LockHeldInside
<1> QED
  BY <1>5, <1>6, <1>7, <1>8, <1>9

\* subscribe registers the live query it has started, with one user.
LEMMA OpenKeeps ==
  ASSUME RegistryInv, NEW g \in Clients, OpenNotifications(g)
  PROVE  RegistryInv'
<1> USE DEF RegistryInv, HubType, At, Attached
<1>1. PICK t \in Streams :
      /\ t = mine[g] /\ stream[t] # "unused" /\ pc[g] = "notif"
      /\ refs[t] = 0 /\ holder = g
      /\ subs[query[g]] = NoStream
      /\ \A n \in Names : subs[n] # t
  BY DEF OpenNotifications, UnregisteredApart, StartingApart, Starting,
         LockHeldInside
<1>2. /\ subs' = [subs EXCEPT ![query[g]] = t]
      /\ refs' = [refs EXCEPT ![t] = 1]
      /\ UNCHANGED <<mine, query, stream>>
      /\ pc' = [pc EXCEPT ![g] = "streaming"]
      /\ holder' = NoClient
  BY <1>1 DEF OpenNotifications, Register, Join, Unlock, Goto, streamVars
<1>3. Users(t) = {}
  BY <1>1 DEF Users, AttachedRegistered
<1>4. Users(t)' = {g}
  BY <1>1, <1>2, <1>3 DEF Users
<1>5. \A s : s # t => Users(s)' = Users(s)
  BY <1>1, <1>2 DEF Users
<1>6. HubType' /\ LockHeldInside'
  BY <1>1, <1>2, HubAssumption DEF HubAssumption, Points, LockHeldInside
<1>7. AttachedRegistered'
  BY <1>1, <1>2, HubAssumption DEF HubAssumption, AttachedRegistered
<1>8. RefsExact'
  <2>1. refs'[t] = Cardinality(Users(t)') /\ Users(t)' # {}
    BY <1>1, <1>2, <1>4, FS_Singleton
  <2>2. ASSUME NEW n \in Names, NEW r \in Streams, r = subs[n], r # t
        PROVE  refs'[r] = Cardinality(Users(r)') /\ Users(r)' # {}
    BY <1>1, <1>2, <1>5, <2>2, HubAssumption DEF HubAssumption, RefsExact
  <2> QED
    BY <1>1, <1>2, <2>1, <2>2 DEF RefsExact
<1>9. KillsOnlyUnused'
  BY <1>1, <1>2, <1>5 DEF KillsOnlyUnused, StartingApart, Killing
<1>10. RegisteredApart' /\ UnregisteredApart' /\ StartingApart' /\ UnusedUncounted'
  BY <1>1, <1>2 DEF RegisteredApart, UnregisteredApart, StartingApart, Starting,
                    Killing, UnusedUncounted, LockHeldInside
<1> QED
  BY <1>6, <1>7, <1>8, <1>9, <1>10

\* A request detaches and leaves others attached.
LEMMA LeaveOthersKeeps ==
  ASSUME RegistryInv, NEW g \in Clients, LeaveOthers(g)
  PROVE  RegistryInv'
<1> USE DEF RegistryInv, HubType, At, Attached
<1>1. PICK t \in Streams :
      /\ pc[g] = "leaving" /\ t = subs[query[g]] /\ mine[g] = t
      /\ pc' = [pc EXCEPT ![g] = "ended"]
      /\ refs' = [refs EXCEPT ![t] = @ - 1]
      /\ refs[t] - 1 # 0
      /\ UNCHANGED <<holder, subs, query, mine, stream>>
  BY DEF LeaveOthers, AttachedRegistered, Unreferenced, Last, Goto, streamVars
<1>2. refs[t] = Cardinality(Users(t)) /\ g \in Users(t)
  BY <1>1, HubAssumption DEF HubAssumption, RefsExact, Users
<1>3. Users(t)' = Users(t) \ {g}
  BY <1>1 DEF Users
<1>4. \A s : s # t => Users(s)' = Users(s)
  BY <1>1 DEF Users
<1>5. /\ Cardinality(Users(t)') = refs[t] - 1
      /\ refs[t] - 1 \in Nat
      /\ Users(t)' # {}
  <2>1. IsFiniteSet(Users(t)') /\ Cardinality(Users(t)') = refs[t] - 1
    BY <1>2, <1>3, UsersFinite, FS_RemoveElement
  <2>2. refs[t] - 1 \in Nat
    BY <1>3, <2>1, FS_CardinalityType
  <2>3. Users(t)' # {}
    BY <1>1, <2>1, FS_EmptySet
  <2> QED
    BY <2>1, <2>2, <2>3
<1>6. HubType' /\ LockHeldInside' /\ AttachedRegistered'
  BY <1>1, <1>5 DEF Points, LockHeldInside, AttachedRegistered
<1>7. RefsExact'
  <2>1. refs'[t] = Cardinality(Users(t)')
    BY <1>1, <1>5
  <2>2. ASSUME NEW n \in Names, NEW r \in Streams, r = subs[n], r # t
        PROVE  refs'[r] = Cardinality(Users(r)') /\ Users(r)' # {}
    BY <1>1, <1>4, <2>2, HubAssumption DEF HubAssumption, RefsExact
  <2> QED
    BY <1>1, <1>5, <2>1, <2>2 DEF RefsExact
<1>8. KillsOnlyUnused'
  <2> SUFFICES ASSUME NEW h \in Clients, pc'[h] \in {"killget", "kill"},
                      NEW r, r = mine'[h]
               PROVE  Users(r)' = {}
    BY DEF KillsOnlyUnused
  <2>1. Users(r) = {}
    BY <1>1 DEF KillsOnlyUnused
  <2> QED
    BY <1>2, <1>4, <2>1
<1>9. RegisteredApart' /\ UnregisteredApart'
  BY <1>1 DEF RegisteredApart, UnregisteredApart, Killing
<1>10. StartingApart' /\ UnusedUncounted'
  BY <1>1, HubAssumption
     DEF HubAssumption, StartingApart, Starting, Killing, UnregisteredApart,
         RegisteredApart, UnusedUncounted
<1> QED
  BY <1>6, <1>7, <1>8, <1>9, <1>10

\* The last user takes the live query out of the registry before the Kill.
LEMMA LeaveLastKeeps ==
  ASSUME RegistryInv, NEW g \in Clients, LeaveLast(g)
  PROVE  RegistryInv'
<1> USE DEF RegistryInv, HubType, At, Attached
<1>1. PICK t \in Streams :
      /\ pc[g] = "leaving" /\ t = subs[query[g]] /\ mine[g] = t
      /\ pc' = [pc EXCEPT ![g] = "killget"]
      /\ refs' = [refs EXCEPT ![t] = @ - 1]
      /\ refs[t] - 1 = 0
      /\ subs' = [subs EXCEPT ![query[g]] = NoStream]
      /\ UNCHANGED <<holder, query, mine, stream>>
      /\ holder = NoClient
  BY DEF LeaveLast, AttachedRegistered, Unreferenced, Last, Forget, Goto,
         streamVars
<1>2. refs[t] = Cardinality(Users(t)) /\ g \in Users(t)
  BY <1>1, HubAssumption DEF HubAssumption, RefsExact, Users
<1>3. Users(t)' = Users(t) \ {g}
  BY <1>1 DEF Users
<1>4. \A s : s # t => Users(s)' = Users(s)
  BY <1>1 DEF Users
<1>5. Users(t)' = {}
  <2>1. IsFiniteSet(Users(t)') /\ Cardinality(Users(t)') = refs[t] - 1
    BY <1>2, <1>3, UsersFinite, FS_RemoveElement
  <2> QED
    BY <1>1, <2>1, FS_EmptySet
<1>6. /\ \A n \in Names : subs'[n] # t
      /\ \A n \in Names : n # query[g] => subs'[n] = subs[n]
  BY <1>1, HubAssumption DEF HubAssumption, RegisteredApart
<1>7. HubType' /\ LockHeldInside'
  BY <1>1 DEF Points, LockHeldInside
<1>8. AttachedRegistered'
  <2> SUFFICES ASSUME NEW h \in Clients, Attached(h)'
               PROVE  mine'[h] # NoStream /\ subs'[query'[h]] = mine'[h]
    BY DEF AttachedRegistered
  <2>1. mine'[h] # t
    BY <1>5 DEF Users
  <2>2. mine[h] # NoStream /\ subs[query[h]] = mine[h]
    BY <1>1 DEF AttachedRegistered
  <2> QED
    BY <1>1, <1>6, <2>1, <2>2
<1>9. RefsExact'
  <2>1. ASSUME NEW n \in Names, NEW r \in Streams, r = subs[n], r # t
        PROVE  refs'[r] = Cardinality(Users(r)') /\ Users(r)' # {}
    BY <1>1, <1>4, <2>1, HubAssumption DEF HubAssumption, RefsExact
  <2> QED
    BY <1>1, <1>6, <2>1 DEF RefsExact
<1>10. KillsOnlyUnused'
  BY <1>1, <1>4, <1>5 DEF KillsOnlyUnused
<1>11. RegisteredApart'
  BY <1>1, <1>6 DEF RegisteredApart
<1>12. UnregisteredApart'
  BY <1>1, <1>6, HubAssumption
     DEF HubAssumption, UnregisteredApart, RegisteredApart, Killing
<1>13. StartingApart' /\ UnusedUncounted'
  BY <1>1, HubAssumption
     DEF HubAssumption, StartingApart, Starting, Killing, UnusedUncounted,
         LockHeldInside
<1> QED
  BY <1>7, <1>8, <1>9, <1>10, <1>11, <1>12, <1>13

\* Every step of every goroutine, of the server and of the Manager preserves
\* the inductive invariant.
LEMMA NextRegistry == RegistryInv /\ [Next]_vars => RegistryInv'
<1> SUFFICES ASSUME RegistryInv, [Next]_vars PROVE RegistryInv'
  OBVIOUS
<1> USE DEF Ages, States, RegistryInv, HubType, hubVars, clientVars, streamVars
<1>1. ASSUME NEW g \in Clients, Request(g) \/ Subscribe(g) PROVE RegistryInv'
  BY <1>1, SubscribeMoves, ReuseKeeps, StartLiveKeeps, OpenKeeps DEF Subscribe
<1>2. ASSUME NEW g \in Clients, Take(g) \/ FanExit(g) \/ Show(g) PROVE RegistryInv'
  BY <1>2, EnvironmentKeeps DEF Take, FanExit, Show
<1>3. ASSUME NEW g \in Clients, Disconnect(g) PROVE RegistryInv'
  BY <1>3, EnvironmentKeeps DEF Disconnect
<1>4. ASSUME NEW g \in Clients, Leave(g) \/ WriteFailed(g) \/ Unsubscribe(g)
      PROVE  RegistryInv'
  BY <1>4, EndMoves, LeaveOthersKeeps, LeaveLastKeeps DEF Unsubscribe
<1>5. ASSUME NEW s \in Streams, StreamLost(s) \/ Notify(s) PROVE RegistryInv'
  BY <1>5, EnvironmentKeeps DEF StreamLost, Notify
<1>6. CASE ManagerStep
  BY <1>6, EnvironmentKeeps DEF ManagerStep, Doomed
<1>7. CASE UNCHANGED vars
  BY <1>7, EnvironmentKeeps DEF vars
<1> QED
  BY <1>1, <1>2, <1>3, <1>4, <1>5, <1>6, <1>7 DEF Next, Stream

-----------------------------------------------------------------------------
(* The notifications.                                                      *)

\* The Manager, as its clients see it, keeps its types.
LEMMA ServiceKept ==
  ASSUME IInv, [Next]_vars
  PROVE  Service!TypeOK'
<1> USE DEF IInv, TypeOK
<1>1. ASSUME UNCHANGED serviceVars PROVE Service!TypeOK'
  BY <1>1 DEF serviceVars, Service!TypeOK
<1>2. ASSUME NEW g \in Clients,
             \/ Service!GetCall(g) \/ Service!GetConn(g) \/ Service!GetFail(g)
             \/ Service!GetAbandon(g) \/ Service!Release(g)
      PROVE  Service!TypeOK'
  BY <1>2 DEF Service!TypeOK, Service!GetCall, Service!GetConn,
              Service!GetFail, Service!GetAbandon, Service!Release
<1>3. CASE ManagerStep
  BY <1>3 DEF ManagerStep, Service!TypeOK, Service!Publish, Service!Announce,
              Service!Withdraw, Service!Cancel, Service!StopCall,
              Service!StopReturn
<1>4. ASSUME NEW g \in Clients, Request(g) \/ Subscribe(g) PROVE Service!TypeOK'
  BY <1>1, <1>2, <1>4
     DEF Subscribe, Request, Reuse, StartFirst, SubscribeGet,
         SubscribeGetFailed, StartLive, StartLiveFailed, OpenNotifications,
         OpenNotificationsFailed
<1>5. ASSUME NEW g \in Clients, Unsubscribe(g) PROVE Service!TypeOK'
  BY <1>1, <1>2, <1>5
     DEF Unsubscribe, LeaveOthers, LeaveLast, KillGet, KillGetFailed, Kill
<1>6. ASSUME NEW g \in Clients, Stream(g) \/ Disconnect(g) \/ WriteFailed(g)
      PROVE  Service!TypeOK'
  BY <1>1, <1>6
     DEF Stream, Take, FanExit, Show, Leave, Disconnect, WriteFailed
<1>7. CASE (\E s \in Streams : StreamLost(s) \/ Notify(s)) \/ UNCHANGED vars
  BY <1>1, <1>7 DEF StreamLost, Notify, vars
<1> QED
  BY <1>3, <1>4, <1>5, <1>6, <1>7 DEF Next

\* A step that sends, takes and shows nothing.
LEMMA QuietKeeps ==
  ASSUME IInv, UNCHANGED <<feed, out, shown, notes>>,
         gone' \in SUBSET Clients, fanning' \in SUBSET Clients,
         chClosed' \in SUBSET Streams,
         \A h \in Clients :
           /\ ~Joined(h)' => ~Joined(h) /\ h \notin fanning'
           /\ h \in fanning' =>
                \/ h \in fanning /\ mine'[h] = mine[h]
                \/ Had(h) = {} /\ mine'[h] \in Streams
  PROVE  NoteType' /\ NotesInOrder'
<1> USE DEF IInv
<1>1. NoteType'
  BY DEF TypeOK, NoteType
<1>2. \A h \in Clients : Had(h)' = Had(h)
  BY DEF Had
<1>3. FeedInOrder' /\ ShownInOrder'
  BY DEF NotesInOrder, FeedInOrder, ShownInOrder
<1>4. ASSUME NEW h \in Clients
      PROVE  /\ \A i \in Had(h)' : i <= notes'
             /\ ~Joined(h)' => Had(h)' = {} /\ h \notin fanning'
             /\ h \in fanning' =>
                  /\ mine'[h] \in Streams
                  /\ \A i \in Had(h)', j \in DOMAIN feed'[mine'[h]] :
                       i < feed'[mine'[h]][j]
  <2>1. (\A i \in Had(h)' : i <= notes') /\ (~Joined(h)' => Had(h)' = {})
    BY <1>2 DEF NotesInOrder
  <2>2. CASE h \in fanning /\ mine'[h] = mine[h]
    BY <1>2, <2>1, <2>2 DEF NotesInOrder
  <2>3. CASE Had(h) = {} /\ mine'[h] \in Streams
    BY <1>2, <2>1, <2>3
  <2>4. CASE h \notin fanning'
    BY <2>1, <2>4
  <2> QED
    BY <2>2, <2>3, <2>4
<1> QED
  BY <1>1, <1>3, <1>4 DEF NotesInOrder

LEMMA RequestsQuiet ==
  ASSUME IInv, NEW g \in Clients,
         \/ Request(g) \/ Subscribe(g) \/ Unsubscribe(g)
         \/ FanExit(g) \/ Leave(g) \/ Disconnect(g) \/ WriteFailed(g)
  PROVE  NoteType' /\ NotesInOrder'
<1> USE DEF IInv, TypeOK, HubType, NoteType, At, Goto, Joined, Points, noteVars,
            fanVars, hubVars, clientVars, streamVars
<1>1. ASSUME NEW p \in Points, Goto(g, p), Joined(g)' \/ ~Joined(g),
             UNCHANGED <<feed, out, shown, notes, gone, fanning, mine>>,
             chClosed' \in SUBSET Streams
      PROVE  NoteType' /\ NotesInOrder'
  BY <1>1, QuietKeeps DEF NotesInOrder
<1>2. ASSUME NEW s \in Streams, Join(g, s), ~Joined(g),
             UNCHANGED <<feed, out, shown, notes, gone, chClosed>>
      PROVE  NoteType' /\ NotesInOrder'
  BY <1>2, QuietKeeps DEF NotesInOrder, Join
<1>3. CASE Reuse(g)
  BY <1>2, <1>3 DEF Reuse
<1>4. CASE OpenNotifications(g)
  <2>1. mine[g] \in Streams
    BY <1>4 DEF OpenNotifications, RegistryInv, UnregisteredApart
  <2> QED
    BY <1>2, <1>4, <2>1 DEF OpenNotifications
<1>5. CASE StartLive(g)
  BY <1>5, QuietKeeps DEF StartLive, NotesInOrder
<1>6. CASE LeaveLast(g)
  <2>1. mine' = mine
    BY <1>6 DEF LeaveLast, RegistryInv, AttachedRegistered, Attached
  <2> QED
    BY <1>1, <1>6, <2>1 DEF LeaveLast
<1>7. CASE Request(g) \/ StartFirst(g) \/ SubscribeGet(g)
  BY <1>1, <1>7 DEF Request, StartFirst, SubscribeGet
<1>8. CASE SubscribeGetFailed(g) \/ StartLiveFailed(g)
  <2>1. Goto(g, "ended") /\ UNCHANGED <<feed, out, shown, notes, gone, fanning,
                                        mine, chClosed>>
    BY <1>8 DEF SubscribeGetFailed, StartLiveFailed, Fail
  <2>2. ~Joined(g) /\ g \notin fanning
    BY <1>8 DEF SubscribeGetFailed, StartLiveFailed, NotesInOrder
  <2> QED
    BY <2>1, <2>2, QuietKeeps DEF NotesInOrder
<1>9. CASE OpenNotificationsFailed(g)
  <2>1. Goto(g, "ended") /\ UNCHANGED <<feed, out, shown, notes, gone, fanning,
                                        mine>>
    BY <1>9 DEF OpenNotificationsFailed, Fail
  <2>2. ~Joined(g) /\ g \notin fanning /\ mine[g] \in Streams
    BY <1>9 DEF OpenNotificationsFailed, NotesInOrder, RegistryInv,
                UnregisteredApart
  <2>3. chClosed' \in SUBSET Streams
    BY <1>9, <2>2 DEF OpenNotificationsFailed, Killed
  <2> QED
    BY <2>1, <2>2, <2>3, QuietKeeps DEF NotesInOrder
<1>10. CASE LeaveOthers(g) \/ KillGet(g) \/ KillGetFailed(g) \/ Leave(g)
              \/ WriteFailed(g)
  BY <1>1, <1>10 DEF LeaveOthers, KillGet, KillGetFailed, Leave, WriteFailed
<1>11. CASE Kill(g)
  <2>1. mine[g] \in Streams
    BY <1>11 DEF Kill, RegistryInv, UnregisteredApart, Killing
  <2>2. chClosed' \in SUBSET Streams
    BY <1>11, <2>1 DEF Kill, Killed
  <2> QED
    BY <1>1, <1>11, <2>2 DEF Kill
<1>12. CASE FanExit(g) \/ Disconnect(g)
  BY <1>12, QuietKeeps DEF FanExit, Disconnect, NotesInOrder
<1> QED
  BY <1>3, <1>4, <1>5, <1>6, <1>7, <1>8, <1>9, <1>10, <1>11, <1>12
     DEF Subscribe, Unsubscribe

\* The sequences of channels, element by element.
LEMMA TailFacts ==
  ASSUME NEW S, NEW q \in Seq(S), q # <<>>
  PROVE  /\ Len(q) \in Nat \ {0} /\ DOMAIN q = 1..Len(q)
         /\ Tail(q) \in Seq(S) /\ Len(Tail(q)) = Len(q) - 1
         /\ DOMAIN Tail(q) = 1..Len(q) - 1
         /\ \A j \in 1..Len(q) - 1 : Tail(q)[j] = q[j + 1] /\ j + 1 \in 1..Len(q)
         /\ Head(q) = q[1] /\ 1 \in 1..Len(q)
         /\ \A j \in 1..Len(q) : q[j] \in S
OBVIOUS

LEMMA ElementFacts ==
  \A q \in Seq(1..MaxNotes) : \A j \in DOMAIN q : q[j] \in 1..MaxNotes
<1>1. ASSUME NEW S, NEW q \in Seq(S), NEW j \in DOMAIN q PROVE q[j] \in S
  OBVIOUS
<1> QED
  BY <1>1

LEMMA AppendFacts ==
  ASSUME NEW q \in Seq(1..MaxNotes), NEW x \in 1..MaxNotes
  PROVE  /\ Len(q) \in Nat /\ DOMAIN q = 1..Len(q)
         /\ Append(q, x) \in Seq(1..MaxNotes) /\ Len(Append(q, x)) = Len(q) + 1
         /\ DOMAIN Append(q, x) = 1..Len(q) + 1
         /\ \A j \in 1..Len(q) : Append(q, x)[j] = q[j]
         /\ Append(q, x)[Len(q) + 1] = x
         /\ \A j \in 1..Len(q) + 1 : j \in 1..Len(q) \/ j = Len(q) + 1
OBVIOUS

\* A fan-out goroutine takes the oldest notification, and keeps or drops it.
LEMMA TakeKeeps ==
  ASSUME IInv, NEW g \in Clients, Take(g)
  PROVE  NoteType' /\ NotesInOrder'
<1> USE DEF IInv, TypeOK, NoteType
<1>1. PICK t \in Streams : t = mine[g] /\ feed[t] # <<>>
  BY DEF NotesInOrder, Take
<1> DEFINE f == feed[t]
           o == out[g]
           n == Len(f)
           m == Len(o)
<1>2. /\ f \in Seq(1..MaxNotes) /\ n \in Nat \ {0} /\ DOMAIN f = 1..n
      /\ Tail(f) \in Seq(1..MaxNotes) /\ DOMAIN Tail(f) = 1..n - 1
      /\ \A j \in 1..n - 1 : Tail(f)[j] = f[j + 1] /\ j + 1 \in 1..n
      /\ Head(f) = f[1] /\ 1 \in 1..n
      /\ \A j \in 1..n : f[j] \in 1..MaxNotes
  BY <1>1, TailFacts
<1>3. /\ o \in Seq(1..MaxNotes) /\ m \in Nat /\ DOMAIN o = 1..m
      /\ Append(o, f[1]) \in Seq(1..MaxNotes)
      /\ Len(Append(o, f[1])) = m + 1 /\ DOMAIN Append(o, f[1]) = 1..m + 1
      /\ \A j \in 1..m : Append(o, f[1])[j] = o[j]
      /\ Append(o, f[1])[m + 1] = f[1]
      /\ \A j \in 1..m : o[j] \in 1..MaxNotes
      /\ \A j \in 1..m + 1 : j \in 1..m \/ j = m + 1
  <2>1. o \in Seq(1..MaxNotes) /\ f[1] \in 1..MaxNotes
    BY <1>2
  <2> HIDE DEF f, o
  <2> QED
    BY <2>1, AppendFacts, ElementFacts
<1>4. /\ feed' = [feed EXCEPT ![t] = Tail(f)]
      /\ UNCHANGED <<notes, shown, fanning, mine, pc, gone, chClosed>>
      /\ out' = out \/ (out' = [out EXCEPT ![g] = Append(o, f[1])] /\ m < OutCapacity)
      /\ g \in fanning
  BY <1>1, <1>2 DEF Take, HasRoom, Pushed, clientVars, streamVars
<1>5. /\ \A j \in 1..n : f[j] <= notes
      /\ \A i, j \in 1..n : i < j => f[i] < f[j]
      /\ \A i \in Had(g), j \in 1..n : i < f[j]
      /\ \A i \in Had(g) : i <= notes
  BY <1>1, <1>2, <1>4 DEF NotesInOrder, FeedInOrder
<1>6. \A j \in 1..n - 1 : f[1] < f[j + 1] /\ f[1] <= notes
  BY <1>2, <1>5
<1>7. NoteType'
  <2>1. feed' \in [Streams -> Seq(1..MaxNotes)]
    BY <1>2, <1>4
  <2>2. CASE out' = out
    BY <1>4, <2>1, <2>2
  <2>3. CASE out' = [out EXCEPT ![g] = Append(o, f[1])] /\ m < OutCapacity
    <3>1. m + 1 <= OutCapacity
      BY <1>3, <2>3, HubAssumption DEF HubAssumption
    <3>2. out' \in [Clients -> Seq(1..MaxNotes)]
      BY <1>3, <2>3
    <3>3. \A h \in Clients : Len(out'[h]) <= OutCapacity
      BY <1>3, <2>3, <3>1
    <3> QED
      BY <1>4, <2>1, <3>2, <3>3
  <2> QED
    BY <1>4, <2>2, <2>3
<1>8. /\ \A s \in Streams \ {t} : feed'[s] = feed[s]
      /\ DOMAIN feed'[t] = 1..n - 1
      /\ \A j \in 1..n - 1 : feed'[t][j] = f[j + 1]
  BY <1>1, <1>2, <1>4
<1>9. FeedInOrder'
  <2>1. ASSUME NEW s \in Streams \ {t}
        PROVE  /\ \A j \in DOMAIN feed'[s] : feed'[s][j] <= notes'
               /\ \A i, j \in DOMAIN feed'[s] : i < j => feed'[s][i] < feed'[s][j]
    BY <1>4, <1>8 DEF NotesInOrder, FeedInOrder
  <2>2. /\ \A j \in 1..n - 1 : feed'[t][j] <= notes'
        /\ \A i, j \in 1..n - 1 : i < j => feed'[t][i] < feed'[t][j]
    BY <1>2, <1>4, <1>5, <1>8
  <2> QED
    BY <1>8, <2>1, <2>2 DEF FeedInOrder
<1>10. /\ Had(g)' \subseteq Had(g) \cup {f[1]}
       /\ \A h \in Clients \ {g} : Had(h)' = Had(h) /\ out'[h] = out[h]
  <2>1. CASE out' = out
    BY <1>4, <2>1 DEF Had
  <2>2. CASE out' = [out EXCEPT ![g] = Append(o, f[1])]
    <3>1. /\ DOMAIN out'[g] = 1..m + 1 /\ out'[g][m + 1] = f[1]
          /\ \A j \in 1..m : out'[g][j] = o[j]
      BY <1>3, <2>2
    <3>2. \A j \in 1..m + 1 : out'[g][j] \in {o[k] : k \in 1..m} \cup {f[1]}
      BY <1>3, <3>1
    <3>3. Had(g)' \subseteq Had(g) \cup {f[1]}
      BY <1>3, <1>4, <3>1, <3>2 DEF Had
    <3> QED
      BY <1>4, <2>2, <3>3 DEF Had
  <2> QED
    BY <1>4, <2>1, <2>2
<1>11. ShownInOrder'
  <2>1. /\ \A i \in shown[g], j \in 1..m : i < o[j]
        /\ \A i, j \in 1..m : i < j => o[i] < o[j]
    BY <1>3 DEF NotesInOrder, ShownInOrder
  <2>2. /\ \A i \in shown[g] : i < f[1]
        /\ \A i \in 1..m : o[i] < f[1]
    BY <1>2, <1>3, <1>5 DEF Had
  <2>3. CASE out' = out
    BY <1>4, <2>3 DEF NotesInOrder, ShownInOrder
  <2>4. CASE out' = [out EXCEPT ![g] = Append(o, f[1])]
    <3>1. /\ DOMAIN out'[g] = 1..m + 1 /\ out'[g][m + 1] = f[1]
          /\ \A j \in 1..m : out'[g][j] = o[j]
      BY <1>3, <2>4
    <3>2. \A i \in shown[g], j \in 1..m + 1 : i < out'[g][j]
      BY <1>3, <2>1, <2>2, <3>1
    <3>3. ASSUME NEW i \in 1..m + 1, NEW j \in 1..m + 1, i < j
          PROVE  out'[g][i] < out'[g][j]
      <4>1. i \in 1..m
        BY <1>3, <3>3
      <4>2. CASE j \in 1..m
        BY <2>1, <3>1, <3>3, <4>1, <4>2
      <4>3. CASE j = m + 1
        BY <2>2, <3>1, <4>1, <4>3
      <4> QED
        BY <1>3, <4>2, <4>3
    <3> QED
      BY <1>4, <1>10, <3>1, <3>2, <3>3 DEF NotesInOrder, ShownInOrder
  <2> QED
    BY <1>4, <2>3, <2>4
<1>12. ASSUME NEW h \in Clients
       PROVE  /\ \A i \in Had(h)' : i <= notes'
              /\ ~Joined(h)' => Had(h)' = {} /\ h \notin fanning'
              /\ h \in fanning' =>
                   /\ mine'[h] \in Streams
                   /\ \A i \in Had(h)', j \in DOMAIN feed'[mine'[h]] :
                        i < feed'[mine'[h]][j]
  <2>1. CASE h = g
    <3>1. Joined(g)
      BY <1>4 DEF NotesInOrder
    <3>2. \A i \in Had(g)' : i <= notes'
      BY <1>4, <1>5, <1>10, <1>2
    <3>3. \A i \in Had(g)', j \in 1..n - 1 : i < feed'[t][j]
      BY <1>2, <1>5, <1>6, <1>8, <1>10
    <3> QED
      BY <1>1, <1>4, <1>8, <2>1, <3>1, <3>2, <3>3 DEF Joined
  <2>2. CASE h # g /\ mine[h] = t
    <3>1. h \in fanning => \A i \in Had(h), j \in 1..n - 1 : i < feed'[t][j]
      <4>1. h \in fanning => \A i \in Had(h), j \in 1..n : i < f[j]
        BY <1>1, <1>2, <2>2 DEF NotesInOrder
      <4> QED
        BY <1>2, <1>8, <4>1
    <3> QED
      BY <1>4, <1>8, <1>10, <2>2, <3>1 DEF NotesInOrder, Joined
  <2>3. CASE h # g /\ mine[h] # t
    BY <1>4, <1>8, <1>10, <2>3 DEF NotesInOrder, Joined
  <2> QED
    BY <2>1, <2>2, <2>3
<1> QED
  BY <1>7, <1>9, <1>11, <1>12 DEF NotesInOrder

\* The event loop writes what has waited longest.
LEMMA ShowKeeps ==
  ASSUME IInv, NEW g \in Clients, Show(g)
  PROVE  NoteType' /\ NotesInOrder'
<1> USE DEF IInv, TypeOK, NoteType
<1> DEFINE o == out[g]
           m == Len(o)
<1>1. /\ o \in Seq(1..MaxNotes) /\ o # <<>> /\ m \in Nat \ {0}
      /\ DOMAIN o = 1..m /\ m <= OutCapacity
      /\ Tail(o) \in Seq(1..MaxNotes) /\ Len(Tail(o)) = m - 1
      /\ DOMAIN Tail(o) = 1..m - 1
      /\ \A j \in 1..m - 1 : Tail(o)[j] = o[j + 1] /\ j + 1 \in 1..m
      /\ Head(o) = o[1] /\ 1 \in 1..m
      /\ \A j \in 1..m : o[j] \in 1..MaxNotes
  <2>1. o \in Seq(1..MaxNotes) /\ o # <<>> /\ m <= OutCapacity
    BY DEF Show
  <2> HIDE DEF o
  <2> QED
    BY <2>1, TailFacts
<1>2. /\ out' = [out EXCEPT ![g] = Tail(o)]
      /\ shown' = [shown EXCEPT ![g] = @ \cup {o[1]}]
      /\ UNCHANGED <<feed, notes, fanning, mine, pc, gone, chClosed>>
  BY <1>1 DEF Show, clientVars, streamVars
<1>3. /\ out'[g] = Tail(o) /\ shown'[g] = shown[g] \cup {o[1]}
      /\ \A h \in Clients \ {g} : out'[h] = out[h] /\ shown'[h] = shown[h]
  BY <1>2
<1>4. NoteType'
  <2>1. Len(out'[g]) <= OutCapacity
    BY <1>1, <1>3, HubAssumption DEF HubAssumption
  <2> QED
    BY <1>1, <1>2, <1>3, <2>1
<1>5. \A h \in Clients : Had(h)' = Had(h)
  <2>1. Had(g)' = Had(g)
    <3>1. {out'[g][j] : j \in DOMAIN out'[g]} \cup {o[1]}
            = {o[j] : j \in 1..m}
      <4>1. ASSUME NEW j \in 1..m, j # 1
            PROVE  \E k \in 1..m - 1 : Tail(o)[k] = o[j]
        <5>1. j - 1 \in 1..m - 1 /\ (j - 1) + 1 = j
          BY <1>1, <4>1
        <5> QED
          BY <1>1, <5>1
      <4>2. \A k \in 1..m - 1 : \E j \in 1..m : Tail(o)[k] = o[j]
        BY <1>1
      <4> HIDE DEF o, m
      <4>3. out'[g] = Tail(o) /\ DOMAIN out'[g] = 1..m - 1
        BY <1>1, <1>3
      <4>4. {out'[g][j] : j \in DOMAIN out'[g]} \subseteq {o[j] : j \in 1..m}
        <5>1. \A k \in DOMAIN out'[g] : \E j \in 1..m : out'[g][k] = o[j]
          BY <4>2, <4>3
        <5> QED
          BY <5>1
      <4>5. \A j \in 1..m :
              o[j] \in {out'[g][k] : k \in DOMAIN out'[g]} \cup {o[1]}
        BY <4>1, <4>3
      <4>6. o[1] \in {o[j] : j \in 1..m}
        BY <1>1
      <4> QED
        BY <4>4, <4>5, <4>6
    <3> QED
      BY <1>1, <1>3, <3>1 DEF Had
  <2>2. \A h \in Clients \ {g} : Had(h)' = Had(h)
    BY <1>3 DEF Had
  <2> QED
    BY <2>1, <2>2
<1>6. ShownInOrder'
  <2>1. /\ \A i \in shown[g], j \in 1..m : i < o[j]
        /\ \A i, j \in 1..m : i < j => o[i] < o[j]
    BY <1>1 DEF NotesInOrder, ShownInOrder
  <2>2. /\ \A i \in shown'[g], j \in 1..m - 1 : i < Tail(o)[j]
        /\ \A i, j \in 1..m - 1 : i < j => Tail(o)[i] < Tail(o)[j]
    BY <1>1, <1>3, <2>1
  <2> QED
    BY <1>1, <1>3, <2>2 DEF NotesInOrder, ShownInOrder
<1>7. FeedInOrder'
  BY <1>2 DEF NotesInOrder, FeedInOrder
<1> QED
  BY <1>2, <1>4, <1>5, <1>6, <1>7 DEF NotesInOrder, Joined

\* A new notification is younger than all others.
LEMMA NotifyKeeps ==
  ASSUME IInv, NEW s \in Streams, Notify(s)
  PROVE  NoteType' /\ NotesInOrder'
<1> USE DEF IInv, TypeOK, NoteType
<1> DEFINE f == feed[s]
           n == Len(f)
           x == notes + 1
<1>1. /\ notes \in Nat /\ x \in 1..MaxNotes /\ notes < x
      /\ f \in Seq(1..MaxNotes) /\ n \in Nat /\ DOMAIN f = 1..n
      /\ Append(f, x) \in Seq(1..MaxNotes) /\ DOMAIN Append(f, x) = 1..n + 1
      /\ \A j \in 1..n : Append(f, x)[j] = f[j]
      /\ Append(f, x)[n + 1] = x
      /\ \A j \in 1..n : f[j] \in 1..MaxNotes
      /\ \A j \in 1..n + 1 : j \in 1..n \/ j = n + 1
  <2>1. /\ notes \in Nat /\ x \in 1..MaxNotes /\ notes < x
        /\ f \in Seq(1..MaxNotes)
    BY HubAssumption DEF Notify, HubAssumption
  <2> HIDE DEF f, x
  <2> QED
    BY <2>1, AppendFacts, ElementFacts
<1>2. /\ notes' = x /\ feed' = [feed EXCEPT ![s] = Append(f, x)]
      /\ UNCHANGED <<out, shown, fanning, mine, pc, gone, chClosed>>
  BY DEF Notify, clientVars, fanVars, streamVars
<1>3. NoteType'
  BY <1>1, <1>2
<1>4. \A h \in Clients : Had(h)' = Had(h)
  BY <1>2 DEF Had
<1>5. /\ DOMAIN feed'[s] = 1..n + 1 /\ feed'[s][n + 1] = x
      /\ \A j \in 1..n : feed'[s][j] = f[j]
      /\ \A r \in Streams \ {s} : feed'[r] = feed[r]
      /\ \A j \in 1..n + 1 : j \in 1..n \/ j = n + 1
  BY <1>1, <1>2
<1>6. /\ \A r \in Streams : \A j \in DOMAIN feed[r] :
           feed[r][j] \in Nat /\ feed[r][j] <= notes
      /\ \A i, j \in 1..n : i < j => f[i] < f[j]
      /\ \A h \in Clients : \A i \in Had(h) : i \in Nat /\ i <= notes
  <2>1. \A r \in Streams : \A j \in DOMAIN feed[r] :
          feed[r][j] \in Nat /\ feed[r][j] <= notes
    BY ElementFacts DEF NotesInOrder, FeedInOrder
  <2>2. \A i, j \in 1..n : i < j => f[i] < f[j]
    BY <1>1 DEF NotesInOrder, FeedInOrder
  <2>3. \A h \in Clients : \A i \in Had(h) : i \in Nat /\ i <= notes
    BY ElementFacts DEF NotesInOrder, Had
  <2> QED
    BY <2>1, <2>2, <2>3
<1>7. FeedInOrder'
  <2>1. /\ \A j \in 1..n + 1 : feed'[s][j] <= x
        /\ \A i, j \in 1..n + 1 : i < j => feed'[s][i] < feed'[s][j]
    <3>1. \A j \in 1..n : f[j] \in Nat /\ f[j] < x
      BY <1>1, <1>6
    <3>2. ASSUME NEW i \in 1..n + 1, NEW j \in 1..n + 1, i < j
          PROVE  feed'[s][i] < feed'[s][j]
      <4>1. i \in 1..n
        BY <1>1, <3>2
      <4>2. CASE j \in 1..n
        BY <1>5, <1>6, <3>2, <4>1, <4>2
      <4>3. CASE j = n + 1
        BY <1>5, <3>1, <4>1, <4>3
      <4> QED
        BY <1>1, <4>2, <4>3
    <3> QED
      BY <1>1, <1>5, <3>1, <3>2
  <2>2. ASSUME NEW r \in Streams \ {s}
        PROVE  /\ \A j \in DOMAIN feed'[r] : feed'[r][j] <= x
               /\ \A i, j \in DOMAIN feed'[r] : i < j => feed'[r][i] < feed'[r][j]
    BY <1>1, <1>5, <1>6 DEF NotesInOrder, FeedInOrder
  <2> QED
    BY <1>2, <1>5, <2>1, <2>2 DEF FeedInOrder
<1>8. ShownInOrder'
  BY <1>2 DEF NotesInOrder, ShownInOrder
<1>9. ASSUME NEW h \in Clients
      PROVE  /\ \A i \in Had(h)' : i <= notes'
             /\ h \in fanning' =>
                  /\ mine'[h] \in Streams
                  /\ \A i \in Had(h)', j \in DOMAIN feed'[mine'[h]] :
                       i < feed'[mine'[h]][j]
  <2>1. \A i \in Had(h) : i < x
    BY <1>1, <1>6
  <2>2. CASE h \in fanning /\ mine[h] = s
    <3>1. \A i \in Had(h), j \in 1..n : i < f[j]
      BY <1>1, <2>2 DEF NotesInOrder
    <3> QED
      BY <1>2, <1>4, <1>5, <1>6, <2>1, <2>2, <3>1
  <2>3. CASE h \in fanning /\ mine[h] # s
    BY <1>2, <1>4, <1>5, <1>6, <2>1, <2>3 DEF NotesInOrder
  <2>4. CASE h \notin fanning
    BY <1>2, <1>4, <1>6, <2>1, <2>4
  <2> QED
    BY <2>2, <2>3, <2>4
<1> QED
  BY <1>2, <1>3, <1>4, <1>7, <1>8, <1>9 DEF NotesInOrder, Joined

LEMMA NotesKept ==
  ASSUME IInv, [Next]_vars
  PROVE  NoteType' /\ NotesInOrder'
<1>1. ASSUME NEW g \in Clients,
             Request(g) \/ Subscribe(g) \/ Stream(g) \/ Unsubscribe(g)
               \/ Disconnect(g) \/ WriteFailed(g)
      PROVE  NoteType' /\ NotesInOrder'
  BY <1>1, RequestsQuiet, TakeKeeps, ShowKeeps DEF Stream
<1>2. ASSUME NEW s \in Streams, StreamLost(s) PROVE NoteType' /\ NotesInOrder'
  BY <1>2, QuietKeeps
     DEF StreamLost, IInv, TypeOK, NoteType, NotesInOrder, Joined, clientVars,
         fanVars, noteVars
<1>3. CASE ManagerStep
  BY <1>3, QuietKeeps
     DEF ManagerStep, IInv, TypeOK, NoteType, NotesInOrder, Joined, clientVars,
         fanVars, noteVars
<1>4. CASE UNCHANGED vars
  BY <1>4, QuietKeeps
     DEF vars, IInv, TypeOK, NoteType, NotesInOrder, Joined, clientVars,
         fanVars, noteVars, streamVars
<1> QED
  BY <1>1, <1>2, <1>3, <1>4, NotifyKeeps DEF Next

-----------------------------------------------------------------------------
(* Orphans.                                                                *)

\* No step without a failure makes an orphan if each live query that runs
\* after it ran before, unless it has an owner now, and keeps an owner.
LEMMA OwnersKept ==
  ASSUME \A s \in Streams : stream'[s] = "live" =>
           \/ Owned(s)'
           \/ stream[s] = "live" /\ ~Owned(s)
  PROVE  Orphans' \subseteq Orphans
BY DEF Orphans

LEMMA SubscribeOwns ==
  ASSUME IInv, NEW g \in Clients,
         \/ Request(g) \/ Reuse(g) \/ StartFirst(g) \/ SubscribeGet(g)
         \/ SubscribeGetFailed(g) \/ StartLive(g) \/ OpenNotifications(g)
  PROVE  Orphans' \subseteq Orphans
<1> USE DEF IInv, TypeOK, HubType, Goto, At, Owned, hubVars, streamVars
<1>1. CASE Request(g) \/ StartFirst(g) \/ SubscribeGet(g) \/ SubscribeGetFailed(g)
  BY <1>1, OwnersKept
     DEF Request, StartFirst, SubscribeGet, SubscribeGetFailed, Fail
<1>2. CASE Reuse(g)
  BY <1>2, OwnersKept DEF Reuse, Join
<1>3. CASE StartLive(g)
  <2>1. PICK t \in Streams : ServerStarts(g, t) /\ mine' = [mine EXCEPT ![g] = t]
    BY <1>3 DEF StartLive
  <2>2. mine'[g] = t /\ pc'[g] = "notif"
    BY <1>3, <2>1 DEF StartLive
  <2>3. \A s \in Streams \ {t} : stream'[s] = stream[s]
    BY <2>1 DEF ServerStarts
  <2>4. \A s \in Streams : Owned(s) => Owned(s)'
    BY <1>3, <2>1 DEF StartLive
  <2> QED
    BY <2>2, <2>3, <2>4, OwnersKept
<1>4. CASE OpenNotifications(g)
  <2>1. subs[query[g]] = NoStream /\ query[g] \in Names /\ mine[g] \in Streams
    BY <1>4
       DEF OpenNotifications, RegistryInv, StartingApart, Starting,
           UnregisteredApart
  <2>2. /\ subs'[query[g]] = mine[g] /\ UNCHANGED stream
        /\ \A n \in Names \ {query[g]} : subs'[n] = subs[n]
        /\ \A h \in Clients \ {g} : mine'[h] = mine[h] /\ pc'[h] = pc[h]
    BY <1>4, <2>1 DEF OpenNotifications, Register, Join
  <2>3. \A s \in Streams : Owned(s) => Owned(s)'
    BY <2>1, <2>2, HubAssumption DEF HubAssumption
  <2> QED
    BY <2>2, <2>3, OwnersKept
<1> QED
  BY <1>1, <1>2, <1>3, <1>4

LEMMA UnsubscribeOwns ==
  ASSUME IInv, NEW g \in Clients,
         \/ Leave(g) \/ WriteFailed(g) \/ LeaveOthers(g) \/ LeaveLast(g)
         \/ KillGet(g) \/ (Kill(g) /\ ~UNCHANGED stream)
  PROVE  Orphans' \subseteq Orphans
<1> USE DEF IInv, TypeOK, HubType, Goto, At, Owned, hubVars, streamVars
<1>1. CASE Leave(g) \/ WriteFailed(g) \/ LeaveOthers(g) \/ KillGet(g)
  BY <1>1, OwnersKept DEF Leave, WriteFailed, LeaveOthers, KillGet
<1>2. CASE LeaveLast(g)
  <2>1. /\ UNCHANGED stream /\ mine'[g] = subs[query[g]] /\ pc'[g] = "killget"
        /\ \A n \in Names \ {query[g]} : subs'[n] = subs[n]
        /\ \A h \in Clients \ {g} : mine'[h] = mine[h] /\ pc'[h] = pc[h]
        /\ pc[g] = "leaving"
    BY <1>2 DEF LeaveLast, Forget
  <2>2. \A s \in Streams : Owned(s) => Owned(s)'
    BY <2>1
  <2> QED
    BY <2>1, <2>2, OwnersKept
<1>3. CASE Kill(g) /\ ~UNCHANGED stream
  <2>1. /\ stream' = [stream EXCEPT ![mine[g]] = "dead"]
        /\ UNCHANGED <<subs, mine>>
        /\ \A h \in Clients \ {g} : pc'[h] = pc[h]
    BY <1>3 DEF Kill, Killed
  <2>2. \A s \in Streams : s = mine[g] \/ (stream'[s] = stream[s] /\ (Owned(s) => Owned(s)'))
    BY <2>1
  <2>3. \A s \in Streams : s = mine[g] => stream'[s] = "dead"
    BY <2>1
  <2> QED
    BY <2>2, <2>3, OwnersKept
<1> QED
  BY <1>1, <1>2, <1>3

\* The fan-out, clients that go, the server and the Manager own nothing.
LEMMA OthersOwn ==
  ASSUME IInv, UNCHANGED <<subs, pc, mine>>,
         \A s \in Streams : stream'[s] = "live" => stream[s] = "live"
  PROVE  Orphans' \subseteq Orphans
BY OwnersKept DEF Owned

LEMMA NextOwns ==
  ASSUME IInv, [Next]_vars
  PROVE  \/ Orphans' \subseteq Orphans
         \/ \E g \in Clients :
              \/ StartLiveFailed(g) \/ OpenNotificationsFailed(g)
              \/ KillGetFailed(g) \/ (Kill(g) /\ UNCHANGED stream)
<1> USE DEF IInv, TypeOK, HubType, hubVars, clientVars, fanVars, streamVars
<1>1. ASSUME NEW g \in Clients, Request(g) \/ Subscribe(g)
      PROVE  \/ Orphans' \subseteq Orphans
             \/ StartLiveFailed(g) \/ OpenNotificationsFailed(g)
  BY <1>1, SubscribeOwns DEF Subscribe
<1>2. ASSUME NEW g \in Clients, Unsubscribe(g) \/ Leave(g) \/ WriteFailed(g)
      PROVE  \/ Orphans' \subseteq Orphans
             \/ KillGetFailed(g) \/ (Kill(g) /\ UNCHANGED stream)
  BY <1>2, UnsubscribeOwns DEF Unsubscribe
<1>3. ASSUME NEW g \in Clients, Take(g) \/ FanExit(g) \/ Show(g) \/ Disconnect(g)
      PROVE  Orphans' \subseteq Orphans
  BY <1>3, OthersOwn DEF Take, FanExit, Show, Disconnect
<1>4. ASSUME NEW s \in Streams, StreamLost(s) \/ Notify(s)
      PROVE  Orphans' \subseteq Orphans
  BY <1>4, OthersOwn DEF StreamLost, Notify
<1>5. CASE ManagerStep
  BY <1>5, OthersOwn DEF ManagerStep, Doomed
<1>6. CASE UNCHANGED vars
  BY <1>6, OthersOwn DEF vars
<1> QED
  BY <1>1, <1>2, <1>3, <1>4, <1>5, <1>6 DEF Next, Stream

-----------------------------------------------------------------------------
(* The theorems.                                                           *)

LEMMA InitIInv == Init => IInv
<1> SUFFICES ASSUME Init PROVE IInv
  OBVIOUS
<1>1. RegistryInv /\ HubType
  BY InitRegistry DEF RegistryInv
<1>2. Service!TypeOK
  BY DEF Init, Service!Init, Service!TypeOK
<1>3. Len(<<>>) = 0 /\ <<>> \in Seq(1..MaxNotes) /\ DOMAIN <<>> = {}
  OBVIOUS
<1>4. NoteType
  BY <1>3, HubAssumption DEF Init, NoteType, HubAssumption
<1>5. NotesInOrder
  BY <1>3, HubAssumption
     DEF Init, NotesInOrder, FeedInOrder, ShownInOrder, Had, Joined,
         HubAssumption
<1> QED
  BY <1>1, <1>2, <1>4, <1>5 DEF IInv, TypeOK

LEMMA NextIInv == IInv /\ [Next]_vars => IInv'
<1> SUFFICES ASSUME IInv, [Next]_vars PROVE IInv'
  OBVIOUS
<1>1. RegistryInv' /\ HubType'
  BY NextRegistry DEF IInv, RegistryInv
<1> QED
  BY <1>1, ServiceKept, NotesKept DEF IInv, TypeOK

(***************************************************************************)
(* What is registered, what subscribe is starting under h.mu and what the  *)
(* last unsubscribe is killing after it stay apart, and notifications keep *)
(* their order, for every number of requests and live queries.             *)
(***************************************************************************)
THEOREM Invariance == Spec => []IInv
BY InitIInv, NextIInv, PTL DEF Spec

\* refs is the number of requests that serveSSE has attached, in every
\* interleaving of subscribe and unsubscribe.
THEOREM RefsCount == Spec => []RefsExact
<1>1. IInv => RefsExact
  BY DEF IInv, RegistryInv
<1> QED
  BY <1>1, Invariance, PTL

\* The subscription that unsubscribe looks up by name is the one that was
\* counted.
THEOREM LookupFindsOwn == Spec => []AttachedRegistered
<1>1. IInv => AttachedRegistered
  BY DEF IInv, RegistryInv
<1> QED
  BY <1>1, Invariance, PTL

\* The Kill of the last unsubscribe, which is sent without the lock, never
\* hits a live query that a request uses.
THEOREM KillsUnused == Spec => []KillsOnlyUnused
<1>1. IInv => KillsOnlyUnused
  BY DEF IInv, RegistryInv
<1> QED
  BY <1>1, Invariance, PTL

\* A client never sees a notification after a younger one, whatever is dropped
\* at a full channel and however many requests share the live query.
THEOREM OrderKept == Spec => []ShownInOrder
<1>1. IInv => ShownInOrder
  BY DEF IInv, NotesInOrder
<1> QED
  BY <1>1, Invariance, PTL

\* A live query over the published connection is forgotten, running with
\* nobody to kill it, only by a call that failed: by the lost answer of LIVE
\* SELECT, a subscription that could not be opened, or a Kill or its Get.
THEOREM OrphansOfFailures == Spec => OrphansOnlyByFailure
<1>1. IInv /\ [Next]_vars =>
        [Orphans' \subseteq Orphans \/
           \E g \in Clients : \/ StartLiveFailed(g) \/ OpenNotificationsFailed(g)
                              \/ KillGetFailed(g) \/ (Kill(g) /\ UNCHANGED stream)]_vars
  BY NextOwns
<1> QED
  BY <1>1, Invariance, PTL DEF Spec, OrphansOnlyByFailure
=============================================================================
