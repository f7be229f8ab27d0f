---------------------- MODULE SubscriptionRegistryProofs ----------------------
(***************************************************************************)
(* Theorems about SubscriptionRegistry for every set of clients, hashes and *)
(* subscription identifiers and every bound on the faults.                  *)
(*                                                                          *)
(* The invariants are proved in layers, each using the ones before it:      *)
(*   TypeOK, HandlerInv, GhostInv, CollectInv, IndexInv, KeptInv.           *)
(* Each layer has a lemma for one step of Next, with one case per action,   *)
(* and a theorem that combines it with the initial condition.               *)
(***************************************************************************)
EXTENDS SubscriptionRegistry, TLAPS

(***************************************************************************)
(* The inductive invariants.                                                *)
(***************************************************************************)
\* The control state of a handler: which steps are garbage collection, when it
\* has pairs left, and that the listener it has removed stays removed.
HandlerInv ==
    /\ \A c \in Client : pc[c] \in GcSteps => c \in closing
    /\ \A c \in closing : pc[c] \in GcSteps \cup DeleteSteps
    /\ \A c \in Client : c \notin closing \/ pc[c] = "gc_read" => todo[c] = {}
    /\ \A c \in Client : pc[c] \in DeleteSteps \cup UnsubSteps \cup {"gc_count"} =>
            <<c, op[c][2]>> \notin listeners[op[c][1]]

\* Only clients that have connected have listeners, in Redis or in the snapshot
\* the cleaner works on.
MembersConnected ==
    /\ \A h \in Hash : \A m \in listeners[h] : pc[m[1]] # "offline"
    /\ \A m \in cCheck \cup cStale : pc[m[1]] # "offline"

GhostInv == MembersConnected /\ GhostVerdictFinal

\* The stages of a registration and of a cleanup on an undisturbed hash.
KeysInv(h) ==
    /\ Registering(h) => h \in registry /\ ~Cleaning(h)
    /\ Cleaning(h) => listeners[h] = {}
    /\ \A c \in Client :
          pc[c] \in {"del_listeners", "del_index"} /\ op[c][1] = h => h \notin registry
    /\ cpc \in {"del_listeners", "del_index"} /\ cHash = h => h \notin registry
    /\ listeners[h] # {} => h \in registry /\ (h \in active \/ Registering(h))
    /\ ~Registering(h) /\ ~Cleaning(h) => (h \in registry <=> h \in active)

IndexInv == \A h \in Hash \ disturbed : KeysInv(h)

\* A handler that is past the SADD of an undisturbed hash has its listener.
ListenerWritten ==
    \A c \in session :
        pc[c] \in {"sub_index", "sub_track"} /\ op[c][1] \notin disturbed =>
            <<c, op[c][2]>> \in listeners[op[c][1]]

\* The listener half of SubscriptionKept; the registry half follows from IndexInv.
ListenerKept ==
    \A c \in session \ (closing \cup faulty), p \in Pair :
        /\ Connected(c)
        /\ p \in tracked[c] /\ p[1] \notin disturbed
        /\ ~(pc[c] \in UnsubSteps \cup DeleteSteps /\ op[c] = p)
        => <<c, p[2]>> \in listeners[p[1]]

KeptInv == ListenerWritten /\ ListenerKept

(***************************************************************************)
(* Types.                                                                   *)
(***************************************************************************)
\* One step of the system preserves TypeOK.
LEMMA TypeStepInv == TypeOK /\ [Next]_vars => TypeOK'
<1> USE MaxFaultsAssumption DEF Pair, Listener, NoPair, NoHash, BusySteps, HandlerSteps,
        CleanerSteps, RegisterSteps, DeleteSteps, UnsubSteps, GcSteps
<1> SUFFICES ASSUME TypeOK, [Next]_vars PROVE TypeOK'
  OBVIOUS
<1> USE DEF TypeOK, redis, handler, cleaner, history, Goto, Finish, Disturb, Fault
<1>1. ASSUME NEW c \in Client, Connect(c) PROVE TypeOK'
  BY <1>1 DEF Connect
<1>2. ASSUME NEW c \in Client, ConnectFail(c) PROVE TypeOK'
  BY <1>2 DEF ConnectFail
<1>3. ASSUME NEW c \in Client, HeartbeatOk(c) PROVE TypeOK'
  BY <1>3 DEF HeartbeatOk
<1>4. ASSUME NEW c \in Client, HeartbeatFail(c) PROVE TypeOK'
  BY <1>4 DEF HeartbeatFail
<1>5. ASSUME NEW c \in Client, SessionExpire(c) PROVE TypeOK'
  BY <1>5 DEF SessionExpire
<1>6. ASSUME NEW c \in Client, SubListen(c) PROVE TypeOK'
  BY <1>6 DEF SubListen
<1>7. ASSUME NEW c \in Client, SubIndex(c) PROVE TypeOK'
  BY <1>7 DEF SubIndex
<1>8. ASSUME NEW c \in Client, SubTrack(c) PROVE TypeOK'
  BY <1>8 DEF SubTrack
<1>9. ASSUME NEW c \in Client, UnsCount(c) PROVE TypeOK'
  BY <1>9 DEF UnsCount
<1>10. ASSUME NEW c \in Client, UnsTrack(c) PROVE TypeOK'
  BY <1>10 DEF UnsTrack
<1>11. ASSUME NEW c \in Client, DelRegistry(c) PROVE TypeOK'
  BY <1>11 DEF DelRegistry
<1>12. ASSUME NEW c \in Client, DelListeners(c) PROVE TypeOK'
  BY <1>12 DEF DelListeners
<1>13. ASSUME NEW c \in Client, DelIndex(c) PROVE TypeOK'
  BY <1>13 DEF DelIndex
<1>14. ASSUME NEW c \in Client, Disconnect(c) PROVE TypeOK'
  BY <1>14 DEF Disconnect
<1>15. ASSUME NEW c \in Client, GcRead(c) PROVE TypeOK'
  BY <1>15 DEF GcRead
<1>16. ASSUME NEW c \in Client, GcCount(c) PROVE TypeOK'
  BY <1>16 DEF GcCount
<1>17. ASSUME NEW c \in Client, Destroy(c) PROVE TypeOK'
  BY <1>17 DEF Destroy
<1>18. ASSUME NEW c \in Client, MessageFail(c) PROVE TypeOK'
  BY <1>18 DEF MessageFail
<1>19. ASSUME NEW c \in Client, TrackFail(c) PROVE TypeOK'
  BY <1>19 DEF TrackFail
<1>20. ASSUME NEW c \in Client, GcReadFail(c) PROVE TypeOK'
  BY <1>20 DEF GcReadFail
<1>21. ASSUME NEW c \in Client, GcFail(c) PROVE TypeOK'
  BY <1>21 DEF GcFail
<1>22. ASSUME NEW c \in Client, DestroyFail(c) PROVE TypeOK'
  BY <1>22 DEF DestroyFail
<1>23. ASSUME NEW c \in Client, NEW p \in Pair, Subscribe(c, p) PROVE TypeOK'
  BY <1>23 DEF Subscribe
<1>24. ASSUME NEW c \in Client, NEW p \in Pair, Unsubscribe(c, p) PROVE TypeOK'
  BY <1>24 DEF Unsubscribe
<1>25. ASSUME NEW c \in Client, NEW p \in Pair, GcNext(c, p) PROVE TypeOK'
  BY <1>25 DEF GcNext
<1>26. ASSUME NEW c \in Client, NEW p \in Pair, GcRemoveFail(c, p) PROVE TypeOK'
  BY <1>26 DEF GcRemoveFail
<1>27. ASSUME NEW c \in Client, CCheck(c) PROVE TypeOK'
  BY <1>27 DEF CCheck, MembersOf
<1>28. ASSUME NEW c \in Client, CCheckFail(c) PROVE TypeOK'
  BY <1>28 DEF CCheckFail, MembersOf
<1>29. ASSUME NEW h \in Hash, CRead(h) PROVE TypeOK'
  BY <1>29 DEF CRead
<1>30. ASSUME NEW h \in Hash, CReadFail(h) PROVE TypeOK'
  BY <1>30 DEF CReadFail
<1>31. CASE WsCrash
  BY <1>31 DEF WsCrash, Connected
<1>32. CASE CScan
  BY <1>32 DEF CScan
<1>33. CASE CRemove
  BY <1>33 DEF CRemove
<1>34. CASE CCount
  BY <1>34 DEF CCount, CleanerContinue
<1>35. CASE CDelRegistry
  BY <1>35 DEF CDelRegistry
<1>36. CASE CDelListeners
  BY <1>36 DEF CDelListeners
<1>37. CASE CDelIndex
  BY <1>37 DEF CDelIndex, CleanerContinue
<1>38. CASE CFail
  BY <1>38 DEF CFail, CleanerContinue
<1>39. CASE ReportingCrash
  BY <1>39 DEF ReportingCrash
<1>40. CASE UNCHANGED vars
  BY <1>40 DEF vars
<1> QED
  BY <1>1, <1>2, <1>3, <1>4, <1>5, <1>6, <1>7, <1>8, <1>9, <1>10, <1>11, <1>12, <1>13, <1>14, <1>15, <1>16, <1>17, <1>18, <1>19, <1>20, <1>21, <1>22, <1>23, <1>24, <1>25, <1>26, <1>27, <1>28, <1>29, <1>30, <1>31, <1>32, <1>33, <1>34, <1>35, <1>36, <1>37, <1>38, <1>39, <1>40
     DEF Next, HandlerStep, ClientStep, HandlerFail, CleanerStep, CleanerFail

\* Every Redis key, program counter and local keeps its shape (TypeOK), in
\* every reachable state.
THEOREM TypeCorrect == Spec => []TypeOK
<1>1. Init => TypeOK
  BY MaxFaultsAssumption DEF Init, TypeOK, Pair, Listener, NoPair, NoHash, BusySteps, HandlerSteps,
     CleanerSteps, RegisterSteps, DeleteSteps, UnsubSteps, GcSteps
<1> QED
  BY <1>1, TypeStepInv, PTL DEF Spec

(***************************************************************************)
(* The handlers.                                                            *)
(***************************************************************************)
\* One step of the system preserves HandlerInv.
LEMMA HandlerStepInv == TypeOK /\ HandlerInv /\ [Next]_vars => HandlerInv'
  <1> SUFFICES ASSUME TypeOK, HandlerInv, [Next]_vars PROVE HandlerInv'
    OBVIOUS
  <1> USE DEF HandlerInv, TypeOK, Pair, Listener, RegisterSteps, DeleteSteps, UnsubSteps, GcSteps, BusySteps,
        HandlerSteps, NoPair, redis, handler, cleaner, history, Goto, Finish, Disturb, Fault
  <1>1. ASSUME NEW c \in Client, Connect(c) PROVE HandlerInv'
    BY <1>1 DEF Connect
  <1>2. ASSUME NEW c \in Client, ConnectFail(c) PROVE HandlerInv'
    BY <1>2 DEF ConnectFail
  <1>3. ASSUME NEW c \in Client, HeartbeatOk(c) PROVE HandlerInv'
    BY <1>3 DEF HeartbeatOk
  <1>4. ASSUME NEW c \in Client, HeartbeatFail(c) PROVE HandlerInv'
    BY <1>4 DEF HeartbeatFail
  <1>5. ASSUME NEW c \in Client, SessionExpire(c) PROVE HandlerInv'
    BY <1>5 DEF SessionExpire
  <1>6. ASSUME NEW c \in Client, SubListen(c) PROVE HandlerInv'
    BY <1>6 DEF SubListen
  <1>7. ASSUME NEW c \in Client, SubIndex(c) PROVE HandlerInv'
    BY <1>7 DEF SubIndex
  <1>8. ASSUME NEW c \in Client, SubTrack(c) PROVE HandlerInv'
    BY <1>8 DEF SubTrack
  <1>9. ASSUME NEW c \in Client, UnsCount(c) PROVE HandlerInv'
    BY <1>9 DEF UnsCount
  <1>10. ASSUME NEW c \in Client, UnsTrack(c) PROVE HandlerInv'
    BY <1>10 DEF UnsTrack
  <1>11. ASSUME NEW c \in Client, DelRegistry(c) PROVE HandlerInv'
    BY <1>11 DEF DelRegistry
  <1>12. ASSUME NEW c \in Client, DelListeners(c) PROVE HandlerInv'
    BY <1>12 DEF DelListeners
  <1>13. ASSUME NEW c \in Client, DelIndex(c) PROVE HandlerInv'
    BY <1>13 DEF DelIndex
  <1>14. ASSUME NEW c \in Client, Disconnect(c) PROVE HandlerInv'
    BY <1>14 DEF Disconnect
  <1>15. ASSUME NEW c \in Client, GcRead(c) PROVE HandlerInv'
    BY <1>15 DEF GcRead
  <1>16. ASSUME NEW c \in Client, GcCount(c) PROVE HandlerInv'
    BY <1>16 DEF GcCount
  <1>17. ASSUME NEW c \in Client, Destroy(c) PROVE HandlerInv'
    BY <1>17 DEF Destroy
  <1>18. ASSUME NEW c \in Client, MessageFail(c) PROVE HandlerInv'
    BY <1>18 DEF MessageFail
  <1>19. ASSUME NEW c \in Client, TrackFail(c) PROVE HandlerInv'
    BY <1>19 DEF TrackFail
  <1>20. ASSUME NEW c \in Client, GcReadFail(c) PROVE HandlerInv'
    BY <1>20 DEF GcReadFail
  <1>21. ASSUME NEW c \in Client, GcFail(c) PROVE HandlerInv'
    BY <1>21 DEF GcFail
  <1>22. ASSUME NEW c \in Client, DestroyFail(c) PROVE HandlerInv'
    BY <1>22 DEF DestroyFail
  <1>23. ASSUME NEW c \in Client, NEW p \in Pair, Subscribe(c, p) PROVE HandlerInv'
    BY <1>23 DEF Subscribe
  <1>24. ASSUME NEW c \in Client, NEW p \in Pair, Unsubscribe(c, p) PROVE HandlerInv'
    BY <1>24 DEF Unsubscribe
  <1>25. ASSUME NEW c \in Client, NEW p \in Pair, GcNext(c, p) PROVE HandlerInv'
    BY <1>25 DEF GcNext
  <1>26. ASSUME NEW c \in Client, NEW p \in Pair, GcRemoveFail(c, p) PROVE HandlerInv'
    BY <1>26 DEF GcRemoveFail
  <1>27. ASSUME NEW c \in Client, CCheck(c) PROVE HandlerInv'
    BY <1>27 DEF CCheck, MembersOf
  <1>28. ASSUME NEW c \in Client, CCheckFail(c) PROVE HandlerInv'
    BY <1>28 DEF CCheckFail, MembersOf
  <1>29. ASSUME NEW h \in Hash, CRead(h) PROVE HandlerInv'
    BY <1>29 DEF CRead
  <1>30. ASSUME NEW h \in Hash, CReadFail(h) PROVE HandlerInv'
    BY <1>30 DEF CReadFail
  <1>31. CASE WsCrash
    BY <1>31 DEF WsCrash, Connected
  <1>32. CASE CScan
    BY <1>32 DEF CScan
  <1>33. CASE CRemove
    BY <1>33 DEF CRemove
  <1>34. CASE CCount
    BY <1>34 DEF CCount, CleanerContinue
  <1>35. CASE CDelRegistry
    BY <1>35 DEF CDelRegistry
  <1>36. CASE CDelListeners
    BY <1>36 DEF CDelListeners
  <1>37. CASE CDelIndex
    BY <1>37 DEF CDelIndex, CleanerContinue
  <1>38. CASE CFail
    BY <1>38 DEF CFail, CleanerContinue
  <1>39. CASE ReportingCrash
    BY <1>39 DEF ReportingCrash
  <1>40. CASE UNCHANGED vars
    BY <1>40 DEF vars
  <1> QED
    BY <1>1, <1>2, <1>3, <1>4, <1>5, <1>6, <1>7, <1>8, <1>9, <1>10, <1>11, <1>12, <1>13, <1>14, <1>15, <1>16, <1>17, <1>18, <1>19, <1>20, <1>21, <1>22, <1>23, <1>24, <1>25, <1>26, <1>27, <1>28, <1>29, <1>30, <1>31, <1>32, <1>33, <1>34, <1>35, <1>36, <1>37, <1>38, <1>39, <1>40
       DEF Next, HandlerStep, ClientStep, HandlerFail, CleanerStep, CleanerFail

LEMMA HandlerCorrect == Spec => []HandlerInv
<1>1. Init => HandlerInv
  BY DEF Init, HandlerInv, GcSteps, DeleteSteps, UnsubSteps
<1> QED
  BY <1>1, TypeCorrect, HandlerStepInv, PTL DEF Spec

(***************************************************************************)
(* The verdicts of the ghost cleaner.                                       *)
(***************************************************************************)
\* One step of the system preserves GhostInv.
LEMMA GhostStepInv == TypeOK /\ GhostInv /\ [Next]_vars => GhostInv'
  <1> SUFFICES ASSUME TypeOK, GhostInv, [Next]_vars PROVE GhostInv'
    OBVIOUS
  <1> USE DEF GhostInv, MembersConnected, GhostVerdictFinal, TypeOK, Pair, Listener, RegisterSteps, DeleteSteps, UnsubSteps, GcSteps, BusySteps,
        redis, handler, cleaner, history, Goto, Finish, Disturb, Fault
  <1>1. ASSUME NEW c \in Client, Connect(c) PROVE GhostInv'
    BY <1>1 DEF Connect
  <1>2. ASSUME NEW c \in Client, ConnectFail(c) PROVE GhostInv'
    BY <1>2 DEF ConnectFail
  <1>3. ASSUME NEW c \in Client, HeartbeatOk(c) PROVE GhostInv'
    BY <1>3 DEF HeartbeatOk
  <1>4. ASSUME NEW c \in Client, HeartbeatFail(c) PROVE GhostInv'
    BY <1>4 DEF HeartbeatFail
  <1>5. ASSUME NEW c \in Client, SessionExpire(c) PROVE GhostInv'
    BY <1>5 DEF SessionExpire
  <1>6. ASSUME NEW c \in Client, SubListen(c) PROVE GhostInv'
    BY <1>6 DEF SubListen
  <1>7. ASSUME NEW c \in Client, SubIndex(c) PROVE GhostInv'
    BY <1>7 DEF SubIndex
  <1>8. ASSUME NEW c \in Client, SubTrack(c) PROVE GhostInv'
    BY <1>8 DEF SubTrack
  <1>9. ASSUME NEW c \in Client, UnsCount(c) PROVE GhostInv'
    BY <1>9 DEF UnsCount
  <1>10. ASSUME NEW c \in Client, UnsTrack(c) PROVE GhostInv'
    BY <1>10 DEF UnsTrack
  <1>11. ASSUME NEW c \in Client, DelRegistry(c) PROVE GhostInv'
    BY <1>11 DEF DelRegistry
  <1>12. ASSUME NEW c \in Client, DelListeners(c) PROVE GhostInv'
    BY <1>12 DEF DelListeners
  <1>13. ASSUME NEW c \in Client, DelIndex(c) PROVE GhostInv'
    BY <1>13 DEF DelIndex
  <1>14. ASSUME NEW c \in Client, Disconnect(c) PROVE GhostInv'
    BY <1>14 DEF Disconnect
  <1>15. ASSUME NEW c \in Client, GcRead(c) PROVE GhostInv'
    BY <1>15 DEF GcRead
  <1>16. ASSUME NEW c \in Client, GcCount(c) PROVE GhostInv'
    BY <1>16 DEF GcCount
  <1>17. ASSUME NEW c \in Client, Destroy(c) PROVE GhostInv'
    BY <1>17 DEF Destroy
  <1>18. ASSUME NEW c \in Client, MessageFail(c) PROVE GhostInv'
    BY <1>18 DEF MessageFail
  <1>19. ASSUME NEW c \in Client, TrackFail(c) PROVE GhostInv'
    BY <1>19 DEF TrackFail
  <1>20. ASSUME NEW c \in Client, GcReadFail(c) PROVE GhostInv'
    BY <1>20 DEF GcReadFail
  <1>21. ASSUME NEW c \in Client, GcFail(c) PROVE GhostInv'
    BY <1>21 DEF GcFail
  <1>22. ASSUME NEW c \in Client, DestroyFail(c) PROVE GhostInv'
    BY <1>22 DEF DestroyFail
  <1>23. ASSUME NEW c \in Client, NEW p \in Pair, Subscribe(c, p) PROVE GhostInv'
    BY <1>23 DEF Subscribe
  <1>24. ASSUME NEW c \in Client, NEW p \in Pair, Unsubscribe(c, p) PROVE GhostInv'
    BY <1>24 DEF Unsubscribe
  <1>25. ASSUME NEW c \in Client, NEW p \in Pair, GcNext(c, p) PROVE GhostInv'
    BY <1>25 DEF GcNext
  <1>26. ASSUME NEW c \in Client, NEW p \in Pair, GcRemoveFail(c, p) PROVE GhostInv'
    BY <1>26 DEF GcRemoveFail
  <1>27. ASSUME NEW c \in Client, CCheck(c) PROVE GhostInv'
    BY <1>27 DEF CCheck, MembersOf
  <1>28. ASSUME NEW c \in Client, CCheckFail(c) PROVE GhostInv'
    BY <1>28 DEF CCheckFail, MembersOf
  <1>29. ASSUME NEW h \in Hash, CRead(h) PROVE GhostInv'
    BY <1>29 DEF CRead
  <1>30. ASSUME NEW h \in Hash, CReadFail(h) PROVE GhostInv'
    BY <1>30 DEF CReadFail
  <1>31. CASE WsCrash
    BY <1>31 DEF WsCrash, Connected
  <1>32. CASE CScan
    BY <1>32 DEF CScan
  <1>33. CASE CRemove
    BY <1>33 DEF CRemove
  <1>34. CASE CCount
    BY <1>34 DEF CCount, CleanerContinue
  <1>35. CASE CDelRegistry
    BY <1>35 DEF CDelRegistry
  <1>36. CASE CDelListeners
    BY <1>36 DEF CDelListeners
  <1>37. CASE CDelIndex
    BY <1>37 DEF CDelIndex, CleanerContinue
  <1>38. CASE CFail
    BY <1>38 DEF CFail, CleanerContinue
  <1>39. CASE ReportingCrash
    BY <1>39 DEF ReportingCrash
  <1>40. CASE UNCHANGED vars
    BY <1>40 DEF vars
  <1> QED
    BY <1>1, <1>2, <1>3, <1>4, <1>5, <1>6, <1>7, <1>8, <1>9, <1>10, <1>11, <1>12, <1>13, <1>14, <1>15, <1>16, <1>17, <1>18, <1>19, <1>20, <1>21, <1>22, <1>23, <1>24, <1>25, <1>26, <1>27, <1>28, <1>29, <1>30, <1>31, <1>32, <1>33, <1>34, <1>35, <1>36, <1>37, <1>38, <1>39, <1>40
       DEF Next, HandlerStep, ClientStep, HandlerFail, CleanerStep, CleanerFail

LEMMA GhostCorrect == Spec => []GhostInv
<1>1. Init => GhostInv
  BY DEF Init, GhostInv, MembersConnected, GhostVerdictFinal
<1> QED
  BY <1>1, TypeCorrect, GhostStepInv, PTL DEF Spec

\* A listener the cleaner has found without a session belongs to a client that
\* never has one again, so the later SREM is right whatever happened in between
\* (ghost_cleaner.py:155-178).
THEOREM VerdictsAreFinal == Spec => []GhostVerdictFinal
  BY GhostCorrect, PTL DEF GhostInv

(***************************************************************************)
(* The garbage collector.                                                   *)
(***************************************************************************)
\* One step of the system preserves NoListenerEscapesGc.
LEMMA CollectStepInv == TypeOK /\ HandlerInv /\ GhostInv /\ NoListenerEscapesGc /\ [Next]_vars => NoListenerEscapesGc'
  <1> SUFFICES ASSUME TypeOK, HandlerInv, GhostInv, NoListenerEscapesGc, [Next]_vars PROVE NoListenerEscapesGc'
    OBVIOUS
  <1> USE DEF NoListenerEscapesGc, Collectable, Connected, HandlerInv, GhostInv,
        MembersConnected, TypeOK, Pair, Listener, RegisterSteps, DeleteSteps, UnsubSteps, GcSteps, BusySteps,
        redis, handler, cleaner, history, Goto, Finish, Disturb, Fault
  <1>1. ASSUME NEW c \in Client, Connect(c) PROVE NoListenerEscapesGc'
    BY <1>1 DEF Connect
  <1>2. ASSUME NEW c \in Client, ConnectFail(c) PROVE NoListenerEscapesGc'
    BY <1>2 DEF ConnectFail
  <1>3. ASSUME NEW c \in Client, HeartbeatOk(c) PROVE NoListenerEscapesGc'
    BY <1>3 DEF HeartbeatOk
  <1>4. ASSUME NEW c \in Client, HeartbeatFail(c) PROVE NoListenerEscapesGc'
    BY <1>4 DEF HeartbeatFail
  <1>5. ASSUME NEW c \in Client, SessionExpire(c) PROVE NoListenerEscapesGc'
    BY <1>5 DEF SessionExpire
  <1>6. ASSUME NEW c \in Client, SubListen(c) PROVE NoListenerEscapesGc'
    BY <1>6 DEF SubListen
  <1>7. ASSUME NEW c \in Client, SubIndex(c) PROVE NoListenerEscapesGc'
    BY <1>7 DEF SubIndex
  <1>8. ASSUME NEW c \in Client, SubTrack(c) PROVE NoListenerEscapesGc'
    BY <1>8 DEF SubTrack
  <1>9. ASSUME NEW c \in Client, UnsCount(c) PROVE NoListenerEscapesGc'
    BY <1>9 DEF UnsCount
  <1>10. ASSUME NEW c \in Client, UnsTrack(c) PROVE NoListenerEscapesGc'
    BY <1>10 DEF UnsTrack
  <1>11. ASSUME NEW c \in Client, DelRegistry(c) PROVE NoListenerEscapesGc'
    BY <1>11 DEF DelRegistry
  <1>12. ASSUME NEW c \in Client, DelListeners(c) PROVE NoListenerEscapesGc'
    BY <1>12 DEF DelListeners
  <1>13. ASSUME NEW c \in Client, DelIndex(c) PROVE NoListenerEscapesGc'
    BY <1>13 DEF DelIndex
  <1>14. ASSUME NEW c \in Client, Disconnect(c) PROVE NoListenerEscapesGc'
    BY <1>14 DEF Disconnect
  <1>15. ASSUME NEW c \in Client, GcRead(c) PROVE NoListenerEscapesGc'
    BY <1>15 DEF GcRead
  <1>16. ASSUME NEW c \in Client, GcCount(c) PROVE NoListenerEscapesGc'
    BY <1>16 DEF GcCount
  <1>17. ASSUME NEW c \in Client, Destroy(c) PROVE NoListenerEscapesGc'
    BY <1>17 DEF Destroy
  <1>18. ASSUME NEW c \in Client, MessageFail(c) PROVE NoListenerEscapesGc'
    BY <1>18 DEF MessageFail
  <1>19. ASSUME NEW c \in Client, TrackFail(c) PROVE NoListenerEscapesGc'
    BY <1>19 DEF TrackFail
  <1>20. ASSUME NEW c \in Client, GcReadFail(c) PROVE NoListenerEscapesGc'
    BY <1>20 DEF GcReadFail
  <1>21. ASSUME NEW c \in Client, GcFail(c) PROVE NoListenerEscapesGc'
    BY <1>21 DEF GcFail
  <1>22. ASSUME NEW c \in Client, DestroyFail(c) PROVE NoListenerEscapesGc'
    BY <1>22 DEF DestroyFail
  <1>23. ASSUME NEW c \in Client, NEW p \in Pair, Subscribe(c, p) PROVE NoListenerEscapesGc'
    BY <1>23 DEF Subscribe
  <1>24. ASSUME NEW c \in Client, NEW p \in Pair, Unsubscribe(c, p) PROVE NoListenerEscapesGc'
    BY <1>24 DEF Unsubscribe
  <1>25. ASSUME NEW c \in Client, NEW p \in Pair, GcNext(c, p) PROVE NoListenerEscapesGc'
    BY <1>25, SMTT(20) DEF GcNext
  <1>26. ASSUME NEW c \in Client, NEW p \in Pair, GcRemoveFail(c, p) PROVE NoListenerEscapesGc'
    BY <1>26 DEF GcRemoveFail
  <1>27. ASSUME NEW c \in Client, CCheck(c) PROVE NoListenerEscapesGc'
    BY <1>27 DEF CCheck, MembersOf
  <1>28. ASSUME NEW c \in Client, CCheckFail(c) PROVE NoListenerEscapesGc'
    BY <1>28 DEF CCheckFail, MembersOf
  <1>29. ASSUME NEW h \in Hash, CRead(h) PROVE NoListenerEscapesGc'
    BY <1>29 DEF CRead
  <1>30. ASSUME NEW h \in Hash, CReadFail(h) PROVE NoListenerEscapesGc'
    BY <1>30 DEF CReadFail
  <1>31. CASE WsCrash
    BY <1>31 DEF WsCrash, Connected
  <1>32. CASE CScan
    BY <1>32 DEF CScan
  <1>33. CASE CRemove
    BY <1>33 DEF CRemove
  <1>34. CASE CCount
    BY <1>34 DEF CCount, CleanerContinue
  <1>35. CASE CDelRegistry
    BY <1>35 DEF CDelRegistry
  <1>36. CASE CDelListeners
    BY <1>36 DEF CDelListeners
  <1>37. CASE CDelIndex
    BY <1>37 DEF CDelIndex, CleanerContinue
  <1>38. CASE CFail
    BY <1>38 DEF CFail, CleanerContinue
  <1>39. CASE ReportingCrash
    BY <1>39 DEF ReportingCrash
  <1>40. CASE UNCHANGED vars
    BY <1>40 DEF vars
  <1> QED
    BY <1>1, <1>2, <1>3, <1>4, <1>5, <1>6, <1>7, <1>8, <1>9, <1>10, <1>11, <1>12, <1>13, <1>14, <1>15, <1>16, <1>17, <1>18, <1>19, <1>20, <1>21, <1>22, <1>23, <1>24, <1>25, <1>26, <1>27, <1>28, <1>29, <1>30, <1>31, <1>32, <1>33, <1>34, <1>35, <1>36, <1>37, <1>38, <1>39, <1>40
       DEF Next, HandlerStep, ClientStep, HandlerFail, CleanerStep, CleanerFail

\* Without a Redis error in its handler, every listener of a connection is in
\* reach of its garbage collection until it is removed, so a connection that
\* ends leaves none (gc.py:70-116).
THEOREM ListenersAreCollected == Spec => []NoListenerEscapesGc
<1>1. Init => NoListenerEscapesGc
  BY DEF Init, NoListenerEscapesGc, Pair
<1> QED
  BY <1>1, TypeCorrect, HandlerCorrect, GhostCorrect, CollectStepInv, PTL DEF Spec

(***************************************************************************)
(* Registry, listeners and index.                                           *)
(***************************************************************************)
\* One step of the system preserves IndexInv.
LEMMA IndexStepInv == TypeOK /\ IndexInv /\ [Next]_vars => IndexInv'
  <1> SUFFICES ASSUME TypeOK, IndexInv, [Next]_vars PROVE IndexInv'
    OBVIOUS
  <1> USE DEF IndexInv, KeysInv, Registering, Cleaning, TypeOK, Pair, Listener, RegisterSteps, DeleteSteps, UnsubSteps, GcSteps, BusySteps,
        HandlerSteps, NoPair, NoHash, redis, handler, cleaner, history, Goto, Finish, Disturb, Fault
  <1>1. ASSUME NEW c \in Client, Connect(c) PROVE IndexInv'
    BY <1>1 DEF Connect
  <1>2. ASSUME NEW c \in Client, ConnectFail(c) PROVE IndexInv'
    BY <1>2 DEF ConnectFail
  <1>3. ASSUME NEW c \in Client, HeartbeatOk(c) PROVE IndexInv'
    BY <1>3 DEF HeartbeatOk
  <1>4. ASSUME NEW c \in Client, HeartbeatFail(c) PROVE IndexInv'
    BY <1>4 DEF HeartbeatFail
  <1>5. ASSUME NEW c \in Client, SessionExpire(c) PROVE IndexInv'
    BY <1>5 DEF SessionExpire
  <1>6. ASSUME NEW c \in Client, SubListen(c) PROVE IndexInv'
    BY <1>6 DEF SubListen
  <1>7. ASSUME NEW c \in Client, SubIndex(c) PROVE IndexInv'
    <2> SUFFICES ASSUME NEW h \in Hash \ disturbed PROVE KeysInv(h)'
      BY <1>7 DEF SubIndex
    <2>1. CASE h = op[c][1]
      BY <1>7, <2>1 DEF SubIndex
    <2>2. CASE h # op[c][1]
      BY <1>7, <2>2 DEF SubIndex
    <2> QED
      BY <2>1, <2>2
  <1>8. ASSUME NEW c \in Client, SubTrack(c) PROVE IndexInv'
    BY <1>8 DEF SubTrack
  <1>9. ASSUME NEW c \in Client, UnsCount(c) PROVE IndexInv'
    BY <1>9 DEF UnsCount
  <1>10. ASSUME NEW c \in Client, UnsTrack(c) PROVE IndexInv'
    BY <1>10 DEF UnsTrack
  <1>11. ASSUME NEW c \in Client, DelRegistry(c) PROVE IndexInv'
    BY <1>11 DEF DelRegistry
  <1>12. ASSUME NEW c \in Client, DelListeners(c) PROVE IndexInv'
    <2> SUFFICES ASSUME NEW h \in Hash \ disturbed PROVE KeysInv(h)'
      BY <1>12 DEF DelListeners
    <2>1. CASE h = op[c][1]
      BY <1>12, <2>1 DEF DelListeners
    <2>2. CASE h # op[c][1]
      BY <1>12, <2>2 DEF DelListeners
    <2> QED
      BY <2>1, <2>2
  <1>13. ASSUME NEW c \in Client, DelIndex(c) PROVE IndexInv'
    <2> SUFFICES ASSUME NEW h \in Hash \ disturbed PROVE KeysInv(h)'
      BY <1>13 DEF DelIndex
    <2>1. CASE h = op[c][1]
      BY <1>13, <2>1 DEF DelIndex
    <2>2. CASE h # op[c][1]
      BY <1>13, <2>2 DEF DelIndex
    <2> QED
      BY <2>1, <2>2
  <1>14. ASSUME NEW c \in Client, Disconnect(c) PROVE IndexInv'
    BY <1>14 DEF Disconnect
  <1>15. ASSUME NEW c \in Client, GcRead(c) PROVE IndexInv'
    BY <1>15 DEF GcRead
  <1>16. ASSUME NEW c \in Client, GcCount(c) PROVE IndexInv'
    BY <1>16 DEF GcCount
  <1>17. ASSUME NEW c \in Client, Destroy(c) PROVE IndexInv'
    BY <1>17 DEF Destroy
  <1>18. ASSUME NEW c \in Client, MessageFail(c) PROVE IndexInv'
    BY <1>18 DEF MessageFail
  <1>19. ASSUME NEW c \in Client, TrackFail(c) PROVE IndexInv'
    BY <1>19 DEF TrackFail
  <1>20. ASSUME NEW c \in Client, GcReadFail(c) PROVE IndexInv'
    BY <1>20 DEF GcReadFail
  <1>21. ASSUME NEW c \in Client, GcFail(c) PROVE IndexInv'
    BY <1>21 DEF GcFail
  <1>22. ASSUME NEW c \in Client, DestroyFail(c) PROVE IndexInv'
    BY <1>22 DEF DestroyFail
  <1>23. ASSUME NEW c \in Client, NEW p \in Pair, Subscribe(c, p) PROVE IndexInv'
    BY <1>23 DEF Subscribe
  <1>24. ASSUME NEW c \in Client, NEW p \in Pair, Unsubscribe(c, p) PROVE IndexInv'
    BY <1>24 DEF Unsubscribe
  <1>25. ASSUME NEW c \in Client, NEW p \in Pair, GcNext(c, p) PROVE IndexInv'
    BY <1>25 DEF GcNext
  <1>26. ASSUME NEW c \in Client, NEW p \in Pair, GcRemoveFail(c, p) PROVE IndexInv'
    BY <1>26 DEF GcRemoveFail
  <1>27. ASSUME NEW c \in Client, CCheck(c) PROVE IndexInv'
    BY <1>27 DEF CCheck, MembersOf
  <1>28. ASSUME NEW c \in Client, CCheckFail(c) PROVE IndexInv'
    BY <1>28 DEF CCheckFail, MembersOf
  <1>29. ASSUME NEW h \in Hash, CRead(h) PROVE IndexInv'
    BY <1>29 DEF CRead
  <1>30. ASSUME NEW h \in Hash, CReadFail(h) PROVE IndexInv'
    BY <1>30 DEF CReadFail
  <1>31. CASE WsCrash
    BY <1>31 DEF WsCrash, Connected
  <1>32. CASE CScan
    BY <1>32 DEF CScan
  <1>33. CASE CRemove
    BY <1>33 DEF CRemove
  <1>34. CASE CCount
    BY <1>34 DEF CCount, CleanerContinue
  <1>35. CASE CDelRegistry
    BY <1>35 DEF CDelRegistry
  <1>36. CASE CDelListeners
    <2> SUFFICES ASSUME NEW h \in Hash \ disturbed PROVE KeysInv(h)'
      BY <1>36 DEF CDelListeners
    <2>1. CASE h = cHash
      BY <1>36, <2>1 DEF CDelListeners
    <2>2. CASE h # cHash
      BY <1>36, <2>2 DEF CDelListeners
    <2> QED
      BY <2>1, <2>2
  <1>37. CASE CDelIndex
    <2> SUFFICES ASSUME NEW h \in Hash \ disturbed PROVE KeysInv(h)'
      BY <1>37 DEF CDelIndex, CleanerContinue
    <2>1. CASE h = cHash
      BY <1>37, <2>1 DEF CDelIndex, CleanerContinue
    <2>2. CASE h # cHash
      BY <1>37, <2>2 DEF CDelIndex, CleanerContinue
    <2> QED
      BY <2>1, <2>2
  <1>38. CASE CFail
    BY <1>38 DEF CFail, CleanerContinue
  <1>39. CASE ReportingCrash
    BY <1>39 DEF ReportingCrash
  <1>40. CASE UNCHANGED vars
    BY <1>40 DEF vars
  <1> QED
    BY <1>1, <1>2, <1>3, <1>4, <1>5, <1>6, <1>7, <1>8, <1>9, <1>10, <1>11, <1>12, <1>13, <1>14, <1>15, <1>16, <1>17, <1>18, <1>19, <1>20, <1>21, <1>22, <1>23, <1>24, <1>25, <1>26, <1>27, <1>28, <1>29, <1>30, <1>31, <1>32, <1>33, <1>34, <1>35, <1>36, <1>37, <1>38, <1>39, <1>40
       DEF Next, HandlerStep, ClientStep, HandlerFail, CleanerStep, CleanerFail

LEMMA IndexCorrect == Spec => []IndexInv
<1>1. Init => IndexInv
  BY DEF Init, IndexInv, KeysInv, Registering, Cleaning, RegisterSteps, DeleteSteps
<1> QED
  BY <1>1, TypeCorrect, IndexStepInv, PTL DEF Spec

\* The three keys of a hash agree whenever no registration or cleanup is half
\* done, unless two of them overlapped or one was cut short: the interleaving of
\* unsubscribe, garbage collection and ghost cleaning does no other harm.
THEOREM IndexIsConsistent == Spec => []IndexConsistent
<1>1. IndexInv => IndexConsistent
  BY DEF IndexInv, KeysInv, IndexConsistent
<1> QED
  BY <1>1, IndexCorrect, PTL

(***************************************************************************)
(* Acknowledged subscriptions.                                              *)
(***************************************************************************)
\* ListenerKept survives a step that leaves the undisturbed listeners alone.
LEMMA KeptFrame ==
  ASSUME session \subseteq Client, ListenerKept,
         UNCHANGED <<session, tracked, closing, faulty, disturbed, op>>,
         \A h \in Hash \ disturbed : listeners'[h] = listeners[h],
         \A d \in Client : \/ pc'[d] = pc[d]
                           \/ pc[d] = "del_listeners" /\ pc'[d] = "del_index"
  PROVE  ListenerKept'
<1> SUFFICES ASSUME NEW c \in session \ (closing \cup faulty), NEW p \in Pair,
                    pc'[c] \notin {"offline", "gone", "crashed"},
                    p \in tracked[c], p[1] \notin disturbed,
                    ~(pc'[c] \in UnsubSteps \cup DeleteSteps /\ op[c] = p)
             PROVE  <<c, p[2]>> \in listeners'[p[1]]
  BY DEF ListenerKept, Connected
<1>1. p[1] \in Hash
  BY DEF Pair
<1>2. Connected(c) /\ ~(pc[c] \in UnsubSteps \cup DeleteSteps /\ op[c] = p)
  BY DEF Connected, UnsubSteps, DeleteSteps
<1>3. <<c, p[2]>> \in listeners[p[1]]
  BY <1>2 DEF ListenerKept
<1> QED
  BY <1>1, <1>3

\* One step of the system preserves KeptInv.
LEMMA KeptStepInv == TypeOK /\ HandlerInv /\ GhostInv /\ IndexInv /\ KeptInv /\ [Next]_vars => KeptInv'
  <1> SUFFICES ASSUME TypeOK, HandlerInv, GhostInv, IndexInv, KeptInv, [Next]_vars PROVE KeptInv'
    OBVIOUS
  <1> USE DEF KeptInv, ListenerWritten, ListenerKept, Connected, HandlerInv, GhostInv,
        GhostVerdictFinal, IndexInv, KeysInv, Cleaning, TypeOK, Pair, Listener, RegisterSteps, DeleteSteps, UnsubSteps, GcSteps, BusySteps,
        redis, handler, cleaner, history, Goto, Finish, Disturb, Fault
  <1>1. ASSUME NEW c \in Client, Connect(c) PROVE KeptInv'
    BY <1>1 DEF Connect
  <1>2. ASSUME NEW c \in Client, ConnectFail(c) PROVE KeptInv'
    BY <1>2 DEF ConnectFail
  <1>3. ASSUME NEW c \in Client, HeartbeatOk(c) PROVE KeptInv'
    BY <1>3 DEF HeartbeatOk
  <1>4. ASSUME NEW c \in Client, HeartbeatFail(c) PROVE KeptInv'
    BY <1>4 DEF HeartbeatFail
  <1>5. ASSUME NEW c \in Client, SessionExpire(c) PROVE KeptInv'
    BY <1>5 DEF SessionExpire
  <1>6. ASSUME NEW c \in Client, SubListen(c) PROVE KeptInv'
    BY <1>6 DEF SubListen
  <1>7. ASSUME NEW c \in Client, SubIndex(c) PROVE KeptInv'
    BY <1>7 DEF SubIndex
  <1>8. ASSUME NEW c \in Client, SubTrack(c) PROVE KeptInv'
    BY <1>8 DEF SubTrack
  <1>9. ASSUME NEW c \in Client, UnsCount(c) PROVE KeptInv'
    BY <1>9 DEF UnsCount
  <1>10. ASSUME NEW c \in Client, UnsTrack(c) PROVE KeptInv'
    BY <1>10 DEF UnsTrack
  <1>11. ASSUME NEW c \in Client, DelRegistry(c) PROVE KeptInv'
    BY <1>11 DEF DelRegistry
  <1>12. ASSUME NEW c \in Client, DelListeners(c) PROVE KeptInv'
    <2>1. Cleaning(op[c][1]) /\ op[c][1] \in Hash
      BY <1>12 DEF DelListeners, BusySteps
    <2>2. \A h \in Hash \ disturbed : listeners'[h] = listeners[h]
      BY <1>12, <2>1 DEF DelListeners
    <2> HIDE DEF IndexInv, KeysInv, HandlerInv, GhostInv, GhostVerdictFinal, KeptInv, ListenerWritten, ListenerKept
    <2>4. UNCHANGED <<session, tracked, closing, faulty, disturbed, op>>
      BY <1>12 DEF DelListeners
    <2>5. \A d \in Client : \/ pc'[d] = pc[d]
                            \/ pc[d] = "del_listeners" /\ pc'[d] = "del_index"
      BY <1>12 DEF DelListeners
    <2>6. session \subseteq Client /\ ListenerWritten /\ ListenerKept
      BY DEF KeptInv
    <2>7. ListenerKept'
      BY <2>2, <2>4, <2>5, <2>6, KeptFrame
    <2>8. ListenerWritten'
      <3>1. SUFFICES ASSUME NEW d \in session, pc'[d] \in {"sub_index", "sub_track"},
                            op[d][1] \notin disturbed
                     PROVE  <<d, op[d][2]>> \in listeners'[op[d][1]]
        BY <2>4 DEF ListenerWritten
      <3>2. d \in Client /\ pc[d] \in {"sub_index", "sub_track"}  BY <2>5, <2>6, <3>1
      <3>3. op[d][1] \in Hash  BY <3>2
      <3>4. <<d, op[d][2]>> \in listeners[op[d][1]]  BY <2>6, <3>1, <3>2 DEF ListenerWritten
      <3>5. QED  BY <2>2, <3>1, <3>3, <3>4
    <2> QED
      BY <2>7, <2>8 DEF KeptInv
  <1>13. ASSUME NEW c \in Client, DelIndex(c) PROVE KeptInv'
    BY <1>13 DEF DelIndex
  <1>14. ASSUME NEW c \in Client, Disconnect(c) PROVE KeptInv'
    BY <1>14 DEF Disconnect
  <1>15. ASSUME NEW c \in Client, GcRead(c) PROVE KeptInv'
    BY <1>15 DEF GcRead
  <1>16. ASSUME NEW c \in Client, GcCount(c) PROVE KeptInv'
    BY <1>16 DEF GcCount
  <1>17. ASSUME NEW c \in Client, Destroy(c) PROVE KeptInv'
    BY <1>17 DEF Destroy
  <1>18. ASSUME NEW c \in Client, MessageFail(c) PROVE KeptInv'
    BY <1>18 DEF MessageFail
  <1>19. ASSUME NEW c \in Client, TrackFail(c) PROVE KeptInv'
    BY <1>19 DEF TrackFail
  <1>20. ASSUME NEW c \in Client, GcReadFail(c) PROVE KeptInv'
    BY <1>20 DEF GcReadFail
  <1>21. ASSUME NEW c \in Client, GcFail(c) PROVE KeptInv'
    BY <1>21 DEF GcFail
  <1>22. ASSUME NEW c \in Client, DestroyFail(c) PROVE KeptInv'
    BY <1>22 DEF DestroyFail
  <1>23. ASSUME NEW c \in Client, NEW p \in Pair, Subscribe(c, p) PROVE KeptInv'
    BY <1>23 DEF Subscribe
  <1>24. ASSUME NEW c \in Client, NEW p \in Pair, Unsubscribe(c, p) PROVE KeptInv'
    BY <1>24 DEF Unsubscribe
  <1>25. ASSUME NEW c \in Client, NEW p \in Pair, GcNext(c, p) PROVE KeptInv'
    BY <1>25 DEF GcNext
  <1>26. ASSUME NEW c \in Client, NEW p \in Pair, GcRemoveFail(c, p) PROVE KeptInv'
    BY <1>26 DEF GcRemoveFail
  <1>27. ASSUME NEW c \in Client, CCheck(c) PROVE KeptInv'
    BY <1>27 DEF CCheck, MembersOf
  <1>28. ASSUME NEW c \in Client, CCheckFail(c) PROVE KeptInv'
    BY <1>28 DEF CCheckFail, MembersOf
  <1>29. ASSUME NEW h \in Hash, CRead(h) PROVE KeptInv'
    BY <1>29 DEF CRead
  <1>30. ASSUME NEW h \in Hash, CReadFail(h) PROVE KeptInv'
    BY <1>30 DEF CReadFail
  <1>31. CASE WsCrash
    BY <1>31 DEF WsCrash, Connected
  <1>32. CASE CScan
    BY <1>32 DEF CScan
  <1>33. CASE CRemove
    BY <1>33 DEF CRemove
  <1>34. CASE CCount
    BY <1>34 DEF CCount, CleanerContinue
  <1>35. CASE CDelRegistry
    BY <1>35 DEF CDelRegistry
  <1>36. CASE CDelListeners
    <2>1. Cleaning(cHash) /\ cHash \in Hash
      BY <1>36 DEF CDelListeners, BusySteps
    <2>2. \A h \in Hash \ disturbed : listeners'[h] = listeners[h]
      BY <1>36, <2>1 DEF CDelListeners
    <2> HIDE DEF IndexInv, KeysInv, HandlerInv, GhostInv, GhostVerdictFinal, KeptInv, ListenerWritten, ListenerKept
    <2>3. ListenerWritten'
      BY <1>36, <2>2 DEF CDelListeners, KeptInv, ListenerWritten
    <2>4. UNCHANGED <<session, tracked, closing, faulty, disturbed, op>>
      BY <1>36 DEF CDelListeners
    <2>5. \A d \in Client : \/ pc'[d] = pc[d]
                            \/ pc[d] = "del_listeners" /\ pc'[d] = "del_index"
      BY <1>36 DEF CDelListeners
    <2>6. session \subseteq Client /\ ListenerKept
      BY DEF KeptInv
    <2>7. ListenerKept'
      BY <2>2, <2>4, <2>5, <2>6, KeptFrame
    <2> QED
      BY <2>3, <2>7 DEF KeptInv
  <1>37. CASE CDelIndex
    BY <1>37 DEF CDelIndex, CleanerContinue
  <1>38. CASE CFail
    BY <1>38 DEF CFail, CleanerContinue
  <1>39. CASE ReportingCrash
    BY <1>39 DEF ReportingCrash
  <1>40. CASE UNCHANGED vars
    BY <1>40 DEF vars
  <1> QED
    BY <1>1, <1>2, <1>3, <1>4, <1>5, <1>6, <1>7, <1>8, <1>9, <1>10, <1>11, <1>12, <1>13, <1>14, <1>15, <1>16, <1>17, <1>18, <1>19, <1>20, <1>21, <1>22, <1>23, <1>24, <1>25, <1>26, <1>27, <1>28, <1>29, <1>30, <1>31, <1>32, <1>33, <1>34, <1>35, <1>36, <1>37, <1>38, <1>39, <1>40
       DEF Next, HandlerStep, ClientStep, HandlerFail, CleanerStep, CleanerFail

LEMMA KeptCorrect == Spec => []KeptInv
<1>1. Init => KeptInv
  BY DEF Init, KeptInv, ListenerWritten, ListenerKept
<1> QED
  BY <1>1, TypeCorrect, HandlerCorrect, GhostCorrect, IndexCorrect, KeptStepInv, PTL DEF Spec

\* While its session lives, an acknowledged subscription keeps its listener and
\* its registry against every other writer, unless a registration and a cleanup
\* of its hash overlapped or were cut short (subscription.py:74-90).
THEOREM SubscriptionsAreKept == Spec => []SubscriptionKept
<1>1. IndexInv /\ ListenerKept => SubscriptionKept
  BY DEF IndexInv, KeysInv, ListenerKept, SubscriptionKept, Pair
<1> QED
  BY <1>1, IndexCorrect, KeptCorrect, PTL DEF KeptInv
===============================================================================
