------------------------------- MODULE DeliveryProofs -------------------------------
(***************************************************************************)
(* Theorems about Delivery for every set of clients, hashes and             *)
(* subscription identifiers, any number of versions and faults, and a bus   *)
(* of any length.                                                           *)
(*                                                                          *)
(* The invariants of the registry are carried over first: a step of the     *)
(* composition is a step of the registry, leaves it alone, or is a fault of *)
(* the poller, the consumer or a snapshot, which only the history records.  *)
(* What delivery needs of a step of the registry is then stated once.       *)
(***************************************************************************)
EXTENDS Delivery, SubscriptionRegistryProofs, SequenceTheorems

(***************************************************************************)
(* The registry under the steps of the composition.                         *)
(***************************************************************************)
\* A fault outside of the registry: nothing of the registry changes but the
\* history of faults.
FaultElsewhere ==
    /\ UNCHANGED <<redis, handler, cleaner, disturbed>>
    /\ faults' \in 0..MaxFaults
    /\ faulty \subseteq faulty' /\ faulty' \subseteq Client

\* What a step of the composition is to the registry.
LEMMA RegistrySteps ==
    TypeOK /\ [DNext]_dvars => [Next]_vars \/ FaultElsewhere
<1> SUFFICES ASSUME TypeOK, [DNext]_dvars PROVE [Next]_vars \/ FaultElsewhere
  OBVIOUS
<1>1. CASE RegistryStep  BY <1>1 DEF RegistryStep
<1>2. CASE UNCHANGED vars  BY <1>2
<1>3. CASE PCrash \/ PFail \/ KListFail \/ KDies
  BY <1>3, MaxFaultsAssumption DEF PCrash, PFail, KListFail, KDies, FaultElsewhere, TypeOK
<1>4. ASSUME NEW c \in Client, SFail(c) PROVE FaultElsewhere
  BY <1>4, MaxFaultsAssumption DEF SFail, Fault, FaultElsewhere, TypeOK
<1>5. CASE NewData \/ PollerStep \/ ConsumerStep \/ \E c \in Client : SnapshotStep(c)
  BY <1>2, <1>5 DEF NewData, PollerStep, ConsumerStep, SnapshotStep, PScan, PRegistry, PQuery,
     PNothing, PPublish, PListeners, KSubscribe, KReceive, KList, KSend, SQuery, SSend
<1>6. QED
  BY <1>1, <1>2, <1>3, <1>4, <1>5 DEF DNext, dvars

\* The invariants of the registry, in the layers of SubscriptionRegistryProofs.
RegistryInv == TypeOK /\ HandlerInv /\ GhostInv /\ IndexInv /\ KeptInv

LEMMA RegistryInvElsewhere == RegistryInv /\ FaultElsewhere => RegistryInv'
<1> SUFFICES ASSUME RegistryInv, FaultElsewhere PROVE RegistryInv'
  OBVIOUS
<1> USE DEF RegistryInv, FaultElsewhere, redis, handler, cleaner
<1>1. TypeOK'  BY DEF TypeOK
<1>2. HandlerInv' /\ GhostInv'
  BY DEF HandlerInv, GhostInv, MembersConnected, GhostVerdictFinal
<1>3. IndexInv'
  BY DEF IndexInv, KeysInv, Registering, Cleaning
<1>4. KeptInv'
  BY DEF KeptInv, ListenerWritten, ListenerKept, Connected
<1>5. QED  BY <1>1, <1>2, <1>3, <1>4

LEMMA RegistryCarriesOver == DSpec => []RegistryInv
<1>1. DInit => RegistryInv
  BY MaxFaultsAssumption DEF DInit, Init, RegistryInv, TypeOK, HandlerInv, GhostInv,
     MembersConnected, GhostVerdictFinal, IndexInv, KeysInv, KeptInv, ListenerWritten,
     ListenerKept, Registering, Cleaning, Pair, Listener, NoPair, NoHash, BusySteps,
     HandlerSteps, CleanerSteps, RegisterSteps, DeleteSteps, UnsubSteps, GcSteps
<1>2. RegistryInv /\ [Next]_vars => RegistryInv'
  BY TypeStepInv, HandlerStepInv, GhostStepInv, IndexStepInv, KeptStepInv DEF RegistryInv
<1>3. RegistryInv /\ [DNext]_dvars => RegistryInv'
  BY <1>2, RegistrySteps, RegistryInvElsewhere DEF RegistryInv
<1>4. QED  BY <1>1, <1>3, PTL DEF DSpec

\* An acknowledged subscription keeps its listener and its registry also when
\* the poller, the consumer and the snapshots fail.
LEMMA KeptInComposition == RegistryInv => SubscriptionKept
BY DEF RegistryInv, KeptInv, IndexInv, KeysInv, ListenerKept, SubscriptionKept, Pair

(***************************************************************************)
(* What delivery needs to know of a step of the registry.                   *)
(***************************************************************************)
\* A listener is only added by the SADD of its own handler.
ListenersGrow ==
    \A c \in Client, p \in Pair :
        <<c, p[2]>> \in listeners'[p[1]] =>
            <<c, p[2]>> \in listeners[p[1]] \/ Registered(c, p)

\* A connection opens once, and a handler that has written the listener goes on
\* to the snapshot, unless there is a fault or the service dies.
HandlersGoOn ==
    /\ faults \in Nat /\ faults' \in Nat /\ faults <= faults'
    /\ \A c \in Client :
        /\ Open(c)' => Open(c) \/ pc[c] = "offline"
        /\ Open(c)' /\ faults' = 0 /\ pc[c] \in {"sub_index", "sub_track"} =>
              \/ pc'[c] \in {"sub_index", "sub_track"} /\ op'[c] = op[c]
              \/ pc[c] = "sub_track" /\ pc'[c] = "idle"
        /\ pc[c] = "sub_listen" /\ pc'[c] = "sub_index" => op'[c] = op[c]

\* A crash of the WebSocket service leaves no connection open.
CrashTakesAll ==
    (\E c \in Client : pc[c] # "crashed" /\ pc'[c] = "crashed") => \A c \in Client : ~Open(c)'

LEMMA ListenersStep == TypeOK /\ [Next]_vars => ListenersGrow
<1> SUFFICES ASSUME TypeOK, [Next]_vars PROVE ListenersGrow
  OBVIOUS
<1> USE DEF ListenersGrow, Registered, TypeOK, Pair, Listener, RegisterSteps, DeleteSteps,
        UnsubSteps, GcSteps, BusySteps, redis, handler, cleaner, history, Goto, Finish
<1>1. ASSUME NEW c \in Client, Connect(c) PROVE ListenersGrow
  BY <1>1 DEF Connect
<1>2. ASSUME NEW c \in Client, ConnectFail(c) PROVE ListenersGrow
  BY <1>2 DEF ConnectFail
<1>3. ASSUME NEW c \in Client, HeartbeatOk(c) PROVE ListenersGrow
  BY <1>3 DEF HeartbeatOk
<1>4. ASSUME NEW c \in Client, HeartbeatFail(c) PROVE ListenersGrow
  BY <1>4 DEF HeartbeatFail
<1>5. ASSUME NEW c \in Client, SessionExpire(c) PROVE ListenersGrow
  BY <1>5 DEF SessionExpire
<1>6. ASSUME NEW c \in Client, SubListen(c) PROVE ListenersGrow
  BY <1>6 DEF SubListen
<1>7. ASSUME NEW c \in Client, SubIndex(c) PROVE ListenersGrow
  BY <1>7 DEF SubIndex
<1>8. ASSUME NEW c \in Client, SubTrack(c) PROVE ListenersGrow
  BY <1>8 DEF SubTrack
<1>9. ASSUME NEW c \in Client, UnsCount(c) PROVE ListenersGrow
  BY <1>9 DEF UnsCount
<1>10. ASSUME NEW c \in Client, UnsTrack(c) PROVE ListenersGrow
  BY <1>10 DEF UnsTrack
<1>11. ASSUME NEW c \in Client, DelRegistry(c) PROVE ListenersGrow
  BY <1>11 DEF DelRegistry
<1>12. ASSUME NEW c \in Client, DelListeners(c) PROVE ListenersGrow
  BY <1>12 DEF DelListeners
<1>13. ASSUME NEW c \in Client, DelIndex(c) PROVE ListenersGrow
  BY <1>13 DEF DelIndex
<1>14. ASSUME NEW c \in Client, Disconnect(c) PROVE ListenersGrow
  BY <1>14 DEF Disconnect
<1>15. ASSUME NEW c \in Client, GcRead(c) PROVE ListenersGrow
  BY <1>15 DEF GcRead
<1>16. ASSUME NEW c \in Client, GcCount(c) PROVE ListenersGrow
  BY <1>16 DEF GcCount
<1>17. ASSUME NEW c \in Client, Destroy(c) PROVE ListenersGrow
  BY <1>17 DEF Destroy
<1>18. ASSUME NEW c \in Client, MessageFail(c) PROVE ListenersGrow
  BY <1>18 DEF MessageFail
<1>19. ASSUME NEW c \in Client, TrackFail(c) PROVE ListenersGrow
  BY <1>19 DEF TrackFail
<1>20. ASSUME NEW c \in Client, GcReadFail(c) PROVE ListenersGrow
  BY <1>20 DEF GcReadFail
<1>21. ASSUME NEW c \in Client, GcFail(c) PROVE ListenersGrow
  BY <1>21 DEF GcFail
<1>22. ASSUME NEW c \in Client, DestroyFail(c) PROVE ListenersGrow
  BY <1>22 DEF DestroyFail
<1>23. ASSUME NEW c \in Client, NEW p \in Pair, Subscribe(c, p) PROVE ListenersGrow
  BY <1>23 DEF Subscribe
<1>24. ASSUME NEW c \in Client, NEW p \in Pair, Unsubscribe(c, p) PROVE ListenersGrow
  BY <1>24 DEF Unsubscribe
<1>25. ASSUME NEW c \in Client, NEW p \in Pair, GcNext(c, p) PROVE ListenersGrow
  BY <1>25 DEF GcNext
<1>26. ASSUME NEW c \in Client, NEW p \in Pair, GcRemoveFail(c, p) PROVE ListenersGrow
  BY <1>26 DEF GcRemoveFail
<1>27. ASSUME NEW c \in Client, CCheck(c) PROVE ListenersGrow
  BY <1>27 DEF CCheck, MembersOf
<1>28. ASSUME NEW c \in Client, CCheckFail(c) PROVE ListenersGrow
  BY <1>28 DEF CCheckFail, MembersOf
<1>29. ASSUME NEW h \in Hash, CRead(h) PROVE ListenersGrow
  BY <1>29 DEF CRead
<1>30. ASSUME NEW h \in Hash, CReadFail(h) PROVE ListenersGrow
  BY <1>30 DEF CReadFail
<1>31. CASE WsCrash
  BY <1>31 DEF WsCrash, Connected
<1>32. CASE CScan
  BY <1>32 DEF CScan
<1>33. CASE CRemove
  BY <1>33 DEF CRemove
<1>34. CASE CCount
  BY <1>34 DEF CCount, CleanerContinue
<1>35. CASE CDelRegistry
  BY <1>35 DEF CDelRegistry
<1>36. CASE CDelListeners
  BY <1>36 DEF CDelListeners
<1>37. CASE CDelIndex
  BY <1>37 DEF CDelIndex, CleanerContinue
<1>38. CASE CFail
  BY <1>38 DEF CFail, CleanerContinue
<1>39. CASE ReportingCrash
  BY <1>39 DEF ReportingCrash
<1>40. CASE UNCHANGED vars
  BY <1>40 DEF vars
<1> QED
  BY <1>1, <1>2, <1>3, <1>4, <1>5, <1>6, <1>7, <1>8, <1>9, <1>10, <1>11, <1>12, <1>13, <1>14,
     <1>15, <1>16, <1>17, <1>18, <1>19, <1>20, <1>21, <1>22, <1>23, <1>24, <1>25, <1>26,
     <1>27, <1>28, <1>29, <1>30, <1>31, <1>32, <1>33, <1>34, <1>35, <1>36, <1>37, <1>38,
     <1>39, <1>40
     DEF Next, HandlerStep, ClientStep, HandlerFail, CleanerStep, CleanerFail

LEMMA HandlersStep == TypeOK /\ [Next]_vars => HandlersGoOn
<1> SUFFICES ASSUME TypeOK, [Next]_vars PROVE HandlersGoOn
  OBVIOUS
<1> USE DEF HandlersGoOn, Open, Connected, TypeOK, RegisterSteps, DeleteSteps, UnsubSteps,
        GcSteps, BusySteps, redis, handler, cleaner, history, Goto, Finish, Fault
<1>1. ASSUME NEW c \in Client, Connect(c) PROVE HandlersGoOn
  BY <1>1 DEF Connect
<1>2. ASSUME NEW c \in Client, ConnectFail(c) PROVE HandlersGoOn
  BY <1>2 DEF ConnectFail
<1>3. ASSUME NEW c \in Client, HeartbeatOk(c) PROVE HandlersGoOn
  BY <1>3 DEF HeartbeatOk
<1>4. ASSUME NEW c \in Client, HeartbeatFail(c) PROVE HandlersGoOn
  BY <1>4 DEF HeartbeatFail
<1>5. ASSUME NEW c \in Client, SessionExpire(c) PROVE HandlersGoOn
  BY <1>5 DEF SessionExpire
<1>6. ASSUME NEW c \in Client, SubListen(c) PROVE HandlersGoOn
  BY <1>6 DEF SubListen
<1>7. ASSUME NEW c \in Client, SubIndex(c) PROVE HandlersGoOn
  BY <1>7 DEF SubIndex
<1>8. ASSUME NEW c \in Client, SubTrack(c) PROVE HandlersGoOn
  BY <1>8 DEF SubTrack
<1>9. ASSUME NEW c \in Client, UnsCount(c) PROVE HandlersGoOn
  BY <1>9 DEF UnsCount
<1>10. ASSUME NEW c \in Client, UnsTrack(c) PROVE HandlersGoOn
  BY <1>10 DEF UnsTrack
<1>11. ASSUME NEW c \in Client, DelRegistry(c) PROVE HandlersGoOn
  BY <1>11 DEF DelRegistry
<1>12. ASSUME NEW c \in Client, DelListeners(c) PROVE HandlersGoOn
  BY <1>12 DEF DelListeners
<1>13. ASSUME NEW c \in Client, DelIndex(c) PROVE HandlersGoOn
  BY <1>13 DEF DelIndex
<1>14. ASSUME NEW c \in Client, Disconnect(c) PROVE HandlersGoOn
  BY <1>14 DEF Disconnect
<1>15. ASSUME NEW c \in Client, GcRead(c) PROVE HandlersGoOn
  BY <1>15 DEF GcRead
<1>16. ASSUME NEW c \in Client, GcCount(c) PROVE HandlersGoOn
  BY <1>16 DEF GcCount
<1>17. ASSUME NEW c \in Client, Destroy(c) PROVE HandlersGoOn
  BY <1>17 DEF Destroy
<1>18. ASSUME NEW c \in Client, MessageFail(c) PROVE HandlersGoOn
  BY <1>18 DEF MessageFail
<1>19. ASSUME NEW c \in Client, TrackFail(c) PROVE HandlersGoOn
  BY <1>19 DEF TrackFail
<1>20. ASSUME NEW c \in Client, GcReadFail(c) PROVE HandlersGoOn
  BY <1>20 DEF GcReadFail
<1>21. ASSUME NEW c \in Client, GcFail(c) PROVE HandlersGoOn
  BY <1>21 DEF GcFail
<1>22. ASSUME NEW c \in Client, DestroyFail(c) PROVE HandlersGoOn
  BY <1>22 DEF DestroyFail
<1>23. ASSUME NEW c \in Client, NEW p \in Pair, Subscribe(c, p) PROVE HandlersGoOn
  BY <1>23 DEF Subscribe
<1>24. ASSUME NEW c \in Client, NEW p \in Pair, Unsubscribe(c, p) PROVE HandlersGoOn
  BY <1>24 DEF Unsubscribe
<1>25. ASSUME NEW c \in Client, NEW p \in Pair, GcNext(c, p) PROVE HandlersGoOn
  BY <1>25 DEF GcNext
<1>26. ASSUME NEW c \in Client, NEW p \in Pair, GcRemoveFail(c, p) PROVE HandlersGoOn
  BY <1>26 DEF GcRemoveFail
<1>27. ASSUME NEW c \in Client, CCheck(c) PROVE HandlersGoOn
  BY <1>27 DEF CCheck, MembersOf
<1>28. ASSUME NEW c \in Client, CCheckFail(c) PROVE HandlersGoOn
  BY <1>28 DEF CCheckFail, MembersOf
<1>29. ASSUME NEW h \in Hash, CRead(h) PROVE HandlersGoOn
  BY <1>29 DEF CRead
<1>30. ASSUME NEW h \in Hash, CReadFail(h) PROVE HandlersGoOn
  BY <1>30 DEF CReadFail
<1>31. CASE WsCrash
  BY <1>31 DEF WsCrash, Connected
<1>32. CASE CScan
  BY <1>32 DEF CScan
<1>33. CASE CRemove
  BY <1>33 DEF CRemove
<1>34. CASE CCount
  BY <1>34 DEF CCount, CleanerContinue
<1>35. CASE CDelRegistry
  BY <1>35 DEF CDelRegistry
<1>36. CASE CDelListeners
  BY <1>36 DEF CDelListeners
<1>37. CASE CDelIndex
  BY <1>37 DEF CDelIndex, CleanerContinue
<1>38. CASE CFail
  BY <1>38 DEF CFail, CleanerContinue
<1>39. CASE ReportingCrash
  BY <1>39 DEF ReportingCrash
<1>40. CASE UNCHANGED vars
  BY <1>40 DEF vars
<1> QED
  BY <1>1, <1>2, <1>3, <1>4, <1>5, <1>6, <1>7, <1>8, <1>9, <1>10, <1>11, <1>12, <1>13, <1>14,
     <1>15, <1>16, <1>17, <1>18, <1>19, <1>20, <1>21, <1>22, <1>23, <1>24, <1>25, <1>26,
     <1>27, <1>28, <1>29, <1>30, <1>31, <1>32, <1>33, <1>34, <1>35, <1>36, <1>37, <1>38,
     <1>39, <1>40
     DEF Next, HandlerStep, ClientStep, HandlerFail, CleanerStep, CleanerFail

LEMMA CrashStep == TypeOK /\ [Next]_vars => CrashTakesAll
<1> SUFFICES ASSUME TypeOK, [Next]_vars PROVE CrashTakesAll
  OBVIOUS
<1> USE DEF CrashTakesAll, Open, Connected, TypeOK, RegisterSteps, DeleteSteps, UnsubSteps,
        GcSteps, redis, handler, cleaner, history, Goto, Finish
<1>1. ASSUME NEW c \in Client, Connect(c) PROVE CrashTakesAll
  BY <1>1 DEF Connect
<1>2. ASSUME NEW c \in Client, ConnectFail(c) PROVE CrashTakesAll
  BY <1>2 DEF ConnectFail
<1>3. ASSUME NEW c \in Client, HeartbeatOk(c) PROVE CrashTakesAll
  BY <1>3 DEF HeartbeatOk
<1>4. ASSUME NEW c \in Client, HeartbeatFail(c) PROVE CrashTakesAll
  BY <1>4 DEF HeartbeatFail
<1>5. ASSUME NEW c \in Client, SessionExpire(c) PROVE CrashTakesAll
  BY <1>5 DEF SessionExpire
<1>6. ASSUME NEW c \in Client, SubListen(c) PROVE CrashTakesAll
  BY <1>6 DEF SubListen
<1>7. ASSUME NEW c \in Client, SubIndex(c) PROVE CrashTakesAll
  BY <1>7 DEF SubIndex
<1>8. ASSUME NEW c \in Client, SubTrack(c) PROVE CrashTakesAll
  BY <1>8 DEF SubTrack
<1>9. ASSUME NEW c \in Client, UnsCount(c) PROVE CrashTakesAll
  BY <1>9 DEF UnsCount
<1>10. ASSUME NEW c \in Client, UnsTrack(c) PROVE CrashTakesAll
  BY <1>10 DEF UnsTrack
<1>11. ASSUME NEW c \in Client, DelRegistry(c) PROVE CrashTakesAll
  BY <1>11 DEF DelRegistry
<1>12. ASSUME NEW c \in Client, DelListeners(c) PROVE CrashTakesAll
  BY <1>12 DEF DelListeners
<1>13. ASSUME NEW c \in Client, DelIndex(c) PROVE CrashTakesAll
  BY <1>13 DEF DelIndex
<1>14. ASSUME NEW c \in Client, Disconnect(c) PROVE CrashTakesAll
  BY <1>14 DEF Disconnect
<1>15. ASSUME NEW c \in Client, GcRead(c) PROVE CrashTakesAll
  BY <1>15 DEF GcRead
<1>16. ASSUME NEW c \in Client, GcCount(c) PROVE CrashTakesAll
  BY <1>16 DEF GcCount
<1>17. ASSUME NEW c \in Client, Destroy(c) PROVE CrashTakesAll
  BY <1>17 DEF Destroy
<1>18. ASSUME NEW c \in Client, MessageFail(c) PROVE CrashTakesAll
  BY <1>18 DEF MessageFail
<1>19. ASSUME NEW c \in Client, TrackFail(c) PROVE CrashTakesAll
  BY <1>19 DEF TrackFail
<1>20. ASSUME NEW c \in Client, GcReadFail(c) PROVE CrashTakesAll
  BY <1>20 DEF GcReadFail
<1>21. ASSUME NEW c \in Client, GcFail(c) PROVE CrashTakesAll
  BY <1>21 DEF GcFail
<1>22. ASSUME NEW c \in Client, DestroyFail(c) PROVE CrashTakesAll
  BY <1>22 DEF DestroyFail
<1>23. ASSUME NEW c \in Client, NEW p \in Pair, Subscribe(c, p) PROVE CrashTakesAll
  BY <1>23 DEF Subscribe
<1>24. ASSUME NEW c \in Client, NEW p \in Pair, Unsubscribe(c, p) PROVE CrashTakesAll
  BY <1>24 DEF Unsubscribe
<1>25. ASSUME NEW c \in Client, NEW p \in Pair, GcNext(c, p) PROVE CrashTakesAll
  BY <1>25 DEF GcNext
<1>26. ASSUME NEW c \in Client, NEW p \in Pair, GcRemoveFail(c, p) PROVE CrashTakesAll
  BY <1>26 DEF GcRemoveFail
<1>27. ASSUME NEW c \in Client, CCheck(c) PROVE CrashTakesAll
  BY <1>27 DEF CCheck, MembersOf
<1>28. ASSUME NEW c \in Client, CCheckFail(c) PROVE CrashTakesAll
  BY <1>28 DEF CCheckFail, MembersOf
<1>29. ASSUME NEW h \in Hash, CRead(h) PROVE CrashTakesAll
  BY <1>29 DEF CRead
<1>30. ASSUME NEW h \in Hash, CReadFail(h) PROVE CrashTakesAll
  BY <1>30 DEF CReadFail
<1>31. CASE WsCrash
  BY <1>31 DEF WsCrash, Connected
<1>32. CASE CScan
  BY <1>32 DEF CScan
<1>33. CASE CRemove
  BY <1>33 DEF CRemove
<1>34. CASE CCount
  BY <1>34 DEF CCount, CleanerContinue
<1>35. CASE CDelRegistry
  BY <1>35 DEF CDelRegistry
<1>36. CASE CDelListeners
  BY <1>36 DEF CDelListeners
<1>37. CASE CDelIndex
  BY <1>37 DEF CDelIndex, CleanerContinue
<1>38. CASE CFail
  BY <1>38 DEF CFail, CleanerContinue
<1>39. CASE ReportingCrash
  BY <1>39 DEF ReportingCrash
<1>40. CASE UNCHANGED vars
  BY <1>40 DEF vars
<1> QED
  BY <1>1, <1>2, <1>3, <1>4, <1>5, <1>6, <1>7, <1>8, <1>9, <1>10, <1>11, <1>12, <1>13, <1>14,
     <1>15, <1>16, <1>17, <1>18, <1>19, <1>20, <1>21, <1>22, <1>23, <1>24, <1>25, <1>26,
     <1>27, <1>28, <1>29, <1>30, <1>31, <1>32, <1>33, <1>34, <1>35, <1>36, <1>37, <1>38,
     <1>39, <1>40
     DEF Next, HandlerStep, ClientStep, HandlerFail, CleanerStep, CleanerFail

(***************************************************************************)
(* Types.                                                                   *)
(***************************************************************************)
Message == Hash \X (0..MaxData)

\* What DTypeOK leaves open: the poller has a hash and a version when it needs
\* them, the consumer a message and no leftover listeners, a snapshot its pair,
\* and nobody has seen a version the database does not have yet.
ShapeInv ==
    /\ ppc \in {"registry", "query", "publish"} => pHash \in Hash
    /\ ppc = "publish" => pResult \in 0..MaxData
    /\ kpc \in {"list", "send"} => kMsg \in Message
    /\ kpc \notin {"list", "send"} => kMsg = NoMsg
    /\ kpc # "send" => kLeft = {}
    /\ \A c \in Client :
        /\ snap[c].step # "none" => snap[c].pair \in Pair
        /\ snap[c].step = "none" => snap[c] = NoSnap
    /\ late \in [Client -> [Pair -> Nat]]
    /\ pResult <= db
    /\ \A h \in Hash : published[h] <= db

TypesInv == DTypeOK /\ ShapeInv

LEMMA Constants == MaxData \in Nat /\ MaxBus \in Nat \ {0} /\ MaxFaults \in Nat
BY DeliveryAssumption, MaxFaultsAssumption

Snaps == [step : {"none", "query", "send"}, pair : Pair \cup {NoPair}, version : Version]

LEMMA NothingSent ==
    /\ NoSnap \in Snaps
    /\ NoneSent \in [Client -> [Pair -> Version]]
    /\ NonePublished \in [Hash -> Version]
    /\ None \in Version /\ 0..MaxData \subseteq Version
BY Constants DEF Snaps, NoSnap, NoneSent, NonePublished, None, Version

LEMMA TypesInit == DInit => TypesInv
<1> SUFFICES ASSUME DInit PROVE TypesInv  OBVIOUS
<1>1. bus \in Seq(Message) /\ Len(bus) = 0  BY EmptySeq DEF DInit
<1>2. snap \in [Client -> Snaps] /\ late \in [Client -> [Pair -> Nat]]
  BY NothingSent DEF DInit
<1>3. DTypeOK
  BY <1>1, <1>2, NothingSent, Constants DEF DInit, DTypeOK, Message, Snaps
<1>4. ShapeInv
  BY <1>2, Constants DEF DInit, ShapeInv, NonePublished, None, NoSnap
<1>5. QED  BY <1>3, <1>4 DEF TypesInv

\* What a message shows keeps its type.
LEMMA ShowType ==
    ASSUME DTypeOK, NEW c \in Client, NEW p \in Pair, NEW v \in Version, Show(c, p, v)
    PROVE  best' \in [Client -> [Pair -> Version]] /\ outdated' \subseteq Client \X Pair
<1>1. best \in [Client -> [Pair -> Version]] /\ outdated \subseteq Client \X Pair
  BY DEF DTypeOK
<1>2. PICK n \in Version : \/ best' = [best EXCEPT ![c][p] = n]
                           \/ best' = best
  <2>1. (IF v > best[c][p] THEN v ELSE best[c][p]) \in Version  BY <1>1
  <2>2. QED  BY <2>1 DEF Show
<1>3. best' \in [Client -> [Pair -> Version]]  BY <1>1, <1>2
<1>4. outdated' \subseteq Client \X Pair  BY <1>1 DEF Show
<1>5. QED  BY <1>3, <1>4

\* A step of the registry keeps the types of delivery.
LEMMA TypesRegistry == TypeOK /\ TypesInv /\ RegistryStep => TypesInv'
<1> SUFFICES ASSUME TypeOK, TypesInv, RegistryStep PROVE TypesInv'  OBVIOUS
<1> USE DEF TypesInv, DTypeOK, ShapeInv
<1>1. UNCHANGED db  BY DEF RegistryStep
<1>2. \/ UNCHANGED consumer
      \/ bus' = <<>> /\ kpc' = "start" /\ kMsg' = NoMsg /\ kLeft' = {}
  BY DEF RegistryStep, ConsumerRestart
<1>3. UNCHANGED poller \/ PollerReset  BY DEF RegistryStep, PollerRestart
<1>4. \A c \in Client : pc[c] = "sub_track" => op[c] \in Pair
  BY DEF TypeOK, BusySteps
<1>5. snap' \in [Client -> Snaps] /\ \A c \in Client :
        /\ snap'[c].step # "none" => snap'[c].pair \in Pair
        /\ snap'[c].step = "none" => snap'[c] = NoSnap
  <2>1. \A c \in Client : pc[c] = "sub_track" =>
            [step |-> "query", pair |-> op[c], version |-> None] \in Snaps
    BY <1>4, NothingSent DEF Snaps
  <2>2. snap \in [Client -> Snaps]  BY DEF Snaps
  <2>3. snap' \in [Client -> Snaps]
    BY <2>1, <2>2, NothingSent DEF RegistryStep, Snapshots
  <2>4. QED
    BY <1>4, <2>3 DEF RegistryStep, Snapshots, NoSnap
<1>6. late' \in [Client -> [Pair -> Nat]]
  BY DEF RegistryStep, Histories
<1>7. /\ best' \in [Client -> [Pair -> Version]]
      /\ outdated' \subseteq Client \X Pair
      /\ published' = published \/ published' = NonePublished
  <2>1. CASE Forget  BY <2>1, NothingSent DEF Forget
  <2>2. CASE /\ best' = [c \in Client |-> [p \in Pair |-> IF Anew(c, p) THEN None ELSE best[c][p]]]
             /\ outdated' = {x \in outdated : ~Anew(x[1], x[2])}
             /\ UNCHANGED published
    <3>1. outdated' \subseteq outdated  BY <2>2
    <3>2. best' \in [Client -> [Pair -> Version]]  BY <2>2, NothingSent
    <3>3. QED  BY <2>2, <3>1, <3>2
  <2>3. QED  BY <2>1, <2>2 DEF RegistryStep, Histories
<1>8. /\ published' \in [Hash -> Version]
      /\ \A h \in Hash : published'[h] <= db'
  BY <1>1, <1>7, NothingSent DEF NonePublished, None
<1>9. /\ bus' \in Seq(Message) /\ Len(bus') <= MaxBus
      /\ kpc' \in {"start", "wait", "list", "send", "dead"}
      /\ kMsg' \in Message \cup {NoMsg} /\ kLeft' \subseteq Listener
      /\ kpc' \in {"list", "send"} => kMsg' \in Message
      /\ kpc' \notin {"list", "send"} => kMsg' = NoMsg
      /\ kpc' # "send" => kLeft' = {}
  <2>1. CASE UNCHANGED consumer  BY <2>1 DEF consumer, Message
  <2>2. CASE bus' = <<>> /\ kpc' = "start" /\ kMsg' = NoMsg /\ kLeft' = {}
    BY <2>2, EmptySeq, Constants
  <2>3. QED  BY <1>2, <2>1, <2>2
<1>10. /\ ppc' \in {"sleep", "next", "registry", "query", "publish"}
       /\ pTodo' \subseteq Hash /\ pHash' \in Hash \cup {NoHash} /\ pResult' \in Version
       /\ ppc' \in {"registry", "query", "publish"} => pHash' \in Hash
       /\ ppc' = "publish" => pResult' \in 0..MaxData
       /\ pResult' <= db'
  BY <1>1, <1>3, NothingSent DEF poller, PollerReset, None
<1>11. QED
  BY <1>1, <1>5, <1>6, <1>7, <1>8, <1>9, <1>10 DEF Snaps, Message

LEMMA CountType ==
    ASSUME NEW f \in [Client -> [Pair -> Nat]], NEW c \in Client, NEW p \in Pair, NEW n \in Nat
    PROVE  [f EXCEPT ![c][p] = n] \in [Client -> [Pair -> Nat]]
OBVIOUS

\* A step of the composition keeps the types of delivery.
LEMMA TypesNext == TypeOK /\ TypesInv /\ [DNext]_dvars => TypesInv'
<1> SUFFICES ASSUME TypeOK, TypesInv, [DNext]_dvars PROVE TypesInv'  OBVIOUS
<1> USE DEF TypesInv, DTypeOK, ShapeInv
<1>a. /\ \A h \in Hash : listeners[h] \subseteq Listener
      /\ active \subseteq Hash
  BY DEF TypeOK
<1>b. bus \in Seq(Message)  BY DEF Message
<1>1. CASE RegistryStep  BY <1>1, TypesRegistry
<1>2. CASE NewData
  <2>1. db' = db + 1 /\ db' \in 0..MaxData  BY <1>2, Constants DEF NewData
  <2>2. pResult \in Int /\ \A h \in Hash : published[h] \in Int
    BY Constants DEF Version, None
  <2>3. QED  BY <1>2, <2>1, <2>2 DEF NewData, poller, consumer, client
<1>3. CASE PScan  BY <1>3, <1>a DEF PScan, consumer, client
<1>4. ASSUME NEW h \in Hash, PListeners(h) PROVE TypesInv'
  BY <1>4, NothingSent DEF PListeners, PollerContinue, consumer, client, None
<1>5. CASE PRegistry
  BY <1>5, NothingSent DEF PRegistry, PollerContinue, consumer, client, None
<1>6. CASE PQuery
  BY <1>6, NothingSent, Constants DEF PQuery, consumer, client
<1>6a. CASE PNothing
  BY <1>6a, NothingSent DEF PNothing, PollerContinue, consumer, client, None
<1>7. CASE PPublish
  <2>1. <<pHash, pResult>> \in Message /\ pResult \in Version
    BY <1>7 DEF PPublish, Message
  <2>2. bus' \in Seq(Message) /\ Len(bus') <= MaxBus
    <3>1. Len(bus) \in Nat  BY <1>b, LenProperties
    <3>2. CASE bus' = Append(bus, <<pHash, pResult>>)
      <4>1. bus' \in Seq(Message) /\ Len(bus') = Len(bus) + 1
        BY <1>b, <2>1, <3>2, AppendProperties
      <4>2. QED  BY <1>7, <3>1, <4>1, Constants DEF PPublish
    <3>3. CASE UNCHANGED bus  BY <1>b, <3>3
    <3>4. QED  BY <1>7, <3>2, <3>3 DEF PPublish
  <2>3. published' \in [Hash -> Version] /\ \A h \in Hash : published'[h] <= db
    BY <1>7, <2>1 DEF PPublish
  <2>4. /\ ppc' \in {"sleep", "next"} /\ pHash' = NoHash /\ pResult' = None
        /\ pTodo' = pTodo
    BY <1>7 DEF PPublish, PollerContinue
  <2>5. UNCHANGED <<db, kpc, kMsg, kLeft, snap, client>>  BY <1>7 DEF PPublish
  <2>6. QED  BY <2>2, <2>3, <2>4, <2>5, NothingSent DEF client, Message, None
<1>8. CASE PCrash
  BY <1>8, NothingSent DEF PCrash, PollerReset, Forget, consumer, None, NonePublished
<1>9. CASE PFail
  BY <1>9, NothingSent DEF PFail, PollerContinue, Forget, consumer, None, NonePublished
<1>10. CASE KSubscribe  BY <1>10 DEF KSubscribe, poller, client
<1>11. CASE KReceive
  <2>1. /\ Head(bus) \in Message /\ Tail(bus) \in Seq(Message)
        /\ Len(Tail(bus)) <= MaxBus
    <3>1. bus # <<>>  BY <1>11 DEF KReceive
    <3>2. Len(Tail(bus)) = Len(bus) - 1 /\ Len(bus) \in Nat
      BY <1>b, <3>1, HeadTailProperties, LenProperties
    <3>3. QED  BY <1>b, <3>1, <3>2, HeadTailProperties, Constants
  <2>2. QED  BY <1>11, <2>1 DEF KReceive, poller, client, Message
<1>12. CASE KList
  <2>1. kMsg[1] \in Hash  BY <1>12 DEF KList, Message
  <2>2. kLeft' \subseteq Listener  BY <1>12, <1>a, <2>1 DEF KList
  <2>3. QED  BY <1>12, <2>2 DEF KList, poller, client
<1>13. ASSUME NEW m \in Listener, KSend(m) PROVE TypesInv'
  <2>1. /\ kMsg[1] \in Hash /\ kMsg[2] \in Version
        /\ m[1] \in Client /\ <<kMsg[1], m[2]>> \in Pair
    BY <1>13, NothingSent DEF KSend, Message, Listener, Pair
  <2>2. best' \in [Client -> [Pair -> Version]] /\ outdated' \subseteq Client \X Pair
    BY <1>13, <2>1, ShowType DEF KSend, client
  <2>3. late' \in [Client -> [Pair -> Nat]]
    <3> DEFINE p == <<kMsg[1], m[2]>>
    <3>1. late[m[1]][p] + 1 \in Nat  BY <2>1
    <3>2. PICK n \in Nat : UNCHANGED late \/ late' = [late EXCEPT ![m[1]][p] = n]
      BY <1>13, <3>1 DEF KSend, client
    <3>3. late \in [Client -> [Pair -> Nat]]  OBVIOUS
    <3>4. CASE late' = [late EXCEPT ![m[1]][p] = n]
      <4> HIDE DEF p, TypesInv, DTypeOK, ShapeInv
      <4>1. p \in Pair /\ m[1] \in Client  BY <2>1 DEF p
      <4>2. QED  BY <3>3, <3>4, <4>1, CountType
    <3>5. QED  BY <3>2, <3>3, <3>4
  <2>4. /\ kLeft' \subseteq Listener
        /\ \/ kLeft' = {} /\ kpc' = "wait" /\ kMsg' = NoMsg
           \/ kLeft' # {} /\ kpc' = "send" /\ kMsg' = kMsg
    BY <1>13 DEF KSend
  <2>5. UNCHANGED <<db, poller, bus, snap, published>>  BY <1>13 DEF KSend
  <2>6. QED  BY <1>13, <2>2, <2>3, <2>4, <2>5 DEF KSend, poller
<1>14. CASE KListFail
  BY <1>14, NothingSent DEF KListFail, Forget, poller, None, NonePublished
<1>15. CASE KDies
  <2>1. bus' \in Seq(Message) /\ Len(bus') <= MaxBus
    BY <1>15, EmptySeq, Constants DEF KDies
  <2>2. QED  BY <1>15, <2>1, NothingSent DEF KDies, Forget, poller, None, NonePublished, Message
<1>16. ASSUME NEW c \in Client, SQuery(c) PROVE TypesInv'
  <2>1. [snap[c] EXCEPT !.step = "send", !.version = db] \in Snaps
    BY <1>16, NothingSent DEF Snaps
  <2>2. snap' = [snap EXCEPT ![c] = [snap[c] EXCEPT !.step = "send", !.version = db]]
    BY <1>16 DEF SQuery
  <2>3. snap' \in [Client -> Snaps] /\ \A d \in Client :
            /\ snap'[d].step # "none" => snap'[d].pair \in Pair
            /\ snap'[d].step = "none" => snap'[d] = NoSnap
    BY <1>16, <2>1, <2>2 DEF SQuery, Snaps
  <2>4. QED  BY <1>16, <2>3 DEF SQuery, Snaps, poller, consumer, client
<1>17. ASSUME NEW c \in Client, SSend(c) PROVE TypesInv'
  <2>1. snap[c].pair \in Pair /\ snap[c].version \in Version
    BY <1>17 DEF SSend
  <2>2. best' \in [Client -> [Pair -> Version]] /\ outdated' \subseteq Client \X Pair
    BY <1>17, <2>1, ShowType DEF SSend
  <2>3. QED  BY <1>17, <2>2, NothingSent DEF SSend, Snaps, NoSnap, poller, consumer
<1>18. ASSUME NEW c \in Client, SFail(c) PROVE TypesInv'
  <2>1. snap' \in [Client -> Snaps] /\ \A d \in Client :
            /\ snap'[d].step # "none" => snap'[d].pair \in Pair
            /\ snap'[d].step = "none" => snap'[d] = NoSnap
    BY <1>18, NothingSent DEF SFail, Snaps, NoSnap
  <2>2. UNCHANGED <<db, poller, consumer, late>> /\ Forget  BY <1>18 DEF SFail
  <2>3. \A h \in Hash : published'[h] <= db
    BY <2>2 DEF Forget, NonePublished, None
  <2>4. QED
    BY <2>1, <2>2, <2>3, NothingSent DEF Forget, Snaps, poller, consumer
<1>19. CASE UNCHANGED dvars  BY <1>19 DEF dvars, poller, consumer, client
<1>20. QED
  BY <1>1, <1>2, <1>3, <1>4, <1>5, <1>6, <1>6a, <1>7, <1>8, <1>9, <1>10, <1>11, <1>12, <1>13, <1>14,
     <1>15, <1>16, <1>17, <1>18, <1>19
     DEF DNext, PollerStep, ConsumerStep, SnapshotStep

LEMMA TypesCorrect == DSpec => [](RegistryInv /\ TypesInv)
<1>1. RegistryInv => TypeOK  BY DEF RegistryInv
<1>2. QED  BY <1>1, TypesInit, TypesNext, RegistryCarriesOver, PTL DEF DSpec

\* The variables of the poller, the consumer, the snapshots and the history
\* keep their shape, so no message without a hash or a version is published and
\* the bus stays within its bound.
THEOREM DeliveryTypes == DSpec => []DTypeOK
BY TypesCorrect, PTL DEF TypesInv

(***************************************************************************)
(* Late pushes.                                                             *)
(***************************************************************************)
\* A pair that has had its late push is neither listed nor left to be sent.
LateInv ==
    \A c \in Client, p \in Pair :
        /\ late[c][p] \in {0, 1}
        /\ late[c][p] = 1 =>
              /\ <<c, p[2]>> \notin listeners[p[1]]
              /\ ~(kMsg[1] = p[1] /\ <<c, p[2]>> \in kLeft)

\* LateInv survives a step after which nobody new is listed or left to be sent.
LEMMA LateFrame ==
    ASSUME TypesInv, LateInv, UNCHANGED <<late, kMsg>>,
           \A h \in Hash : listeners'[h] \subseteq listeners[h],
           kLeft' \subseteq kLeft
    PROVE  LateInv'
BY DEF LateInv, Pair

LEMMA LateStep == TypeOK /\ TypesInv /\ LateInv /\ [DNext]_dvars => LateInv'
<1> SUFFICES ASSUME TypeOK, TypesInv, LateInv, [DNext]_dvars PROVE LateInv'  OBVIOUS
<1>1. CASE RegistryStep
  <2>1. ListenersGrow  BY <1>1, ListenersStep DEF RegistryStep
  <2>2. \/ UNCHANGED <<kMsg, kLeft>>
        \/ kLeft' = {}
    BY <1>1 DEF RegistryStep, ConsumerRestart, consumer
  <2>3. \A c \in Client, p \in Pair : late'[c][p] = IF Anew(c, p) THEN 0 ELSE late[c][p]
    BY <1>1 DEF RegistryStep, Histories
  <2>4. \A c \in Client, p \in Pair : Registered(c, p) => Anew(c, p)  BY DEF Anew
  <2>5. SUFFICES ASSUME NEW c \in Client, NEW p \in Pair
                 PROVE  /\ late'[c][p] \in {0, 1}
                        /\ late'[c][p] = 1 =>
                              /\ <<c, p[2]>> \notin listeners'[p[1]]
                              /\ ~(kMsg'[1] = p[1] /\ <<c, p[2]>> \in kLeft')
    BY DEF LateInv
  <2>6. CASE Anew(c, p)
    <3>1. late'[c][p] = 0  BY <2>3, <2>6
    <3>2. QED  BY <3>1
  <2>7. CASE ~Anew(c, p)
    <3>1. late'[c][p] = late[c][p]  BY <2>3, <2>7
    <3>2. <<c, p[2]>> \in listeners'[p[1]] => <<c, p[2]>> \in listeners[p[1]]
      BY <2>1, <2>4, <2>7 DEF ListenersGrow
    <3>3. QED  BY <2>2, <3>1, <3>2 DEF LateInv
  <2>8. QED  BY <2>6, <2>7
<1>2. CASE UNCHANGED <<late, kMsg, kLeft, listeners>>
  BY <1>2, LateFrame
<1>3. CASE NewData \/ PollerStep \/ PCrash \/ PFail \/ KSubscribe
           \/ \E c \in Client : SnapshotStep(c) \/ SFail(c)
  BY <1>2, <1>3 DEF NewData, PollerStep, SnapshotStep, PScan, PRegistry, PQuery, PNothing, PPublish,
     PListeners, PCrash, PFail, KSubscribe, SQuery, SSend, SFail, vars, redis, consumer, client
<1>4. CASE KReceive
  <2>1. kLeft = {} /\ kLeft' = kLeft  BY <1>4 DEF KReceive, TypesInv, ShapeInv
  <2>2. UNCHANGED <<late, listeners>>  BY <1>4 DEF KReceive, vars, redis, client
  <2>3. QED  BY <2>1, <2>2 DEF LateInv
<1>5. CASE KList
  <2>1. UNCHANGED <<late, listeners>>  BY <1>5 DEF KList, vars, redis, client
  <2>2. kLeft' = listeners[kMsg[1]] /\ (kMsg' = kMsg \/ kLeft' = {})  BY <1>5 DEF KList
  <2>3. QED  BY <2>1, <2>2 DEF LateInv
<1>6. ASSUME NEW m \in Listener, KSend(m) PROVE LateInv'
  <2>1. UNCHANGED listeners  BY <1>6 DEF KSend, vars, redis
  <2>2. m \in kLeft /\ kLeft' = kLeft \ {m} /\ (kMsg' = kMsg \/ kLeft' = {})
    BY <1>6 DEF KSend
  <2>3. CASE UNCHANGED late  BY <2>1, <2>2, <2>3 DEF LateInv
  <2>4. CASE ~UNCHANGED late
    <3> DEFINE q == <<kMsg[1], m[2]>>
    <3>1. /\ m \notin listeners[kMsg[1]]
          /\ late' = [late EXCEPT ![m[1]][q] = late[m[1]][q] + 1]
      BY <1>6, <2>4 DEF KSend, client
    <3>2. /\ m[1] \in Client /\ q \in Pair /\ q[1] = kMsg[1] /\ q[2] = m[2]
          /\ m = <<m[1], m[2]>>
      BY <1>6 DEF KSend, TypesInv, ShapeInv, Message, Listener, Pair
    <3>3. late \in [Client -> [Pair -> Nat]]  BY DEF TypesInv, ShapeInv
    <3>4. late[m[1]][q] = 0  BY <2>2, <3>2 DEF LateInv
    <3> HIDE DEF q
    <3>5. SUFFICES ASSUME NEW c \in Client, NEW p \in Pair
                   PROVE  /\ late'[c][p] \in {0, 1}
                          /\ late'[c][p] = 1 =>
                                /\ <<c, p[2]>> \notin listeners[p[1]]
                                /\ ~(kMsg'[1] = p[1] /\ <<c, p[2]>> \in kLeft')
      BY <2>1 DEF LateInv
    <3>6. CASE c = m[1] /\ p = q
      <4>1. late'[c][p] = 1  BY <3>1, <3>2, <3>3, <3>4, <3>6
      <4>2. QED  BY <2>2, <3>1, <3>2, <3>6, <4>1
    <3>7. CASE ~(c = m[1] /\ p = q)
      <4>1. late'[c][p] = late[c][p]  BY <3>1, <3>2, <3>3, <3>7
      <4>2. QED  BY <2>2, <4>1 DEF LateInv
    <3>8. QED  BY <3>6, <3>7
  <2>5. QED  BY <2>3, <2>4
<1>7. CASE KListFail
  <2>1. kLeft = {} /\ kLeft' = kLeft  BY <1>7 DEF KListFail, TypesInv, ShapeInv
  <2>2. UNCHANGED <<late, listeners>>  BY <1>7 DEF KListFail, redis
  <2>3. QED  BY <2>1, <2>2 DEF LateInv
<1>8. CASE KDies  BY <1>2, <1>8 DEF KDies, redis
<1>9. CASE UNCHANGED dvars  BY <1>2, <1>9 DEF dvars, vars, redis, consumer, client
<1>10. QED
  BY <1>1, <1>3, <1>4, <1>5, <1>6, <1>7, <1>8, <1>9 DEF DNext, ConsumerStep

\* After an unsubscribe, or after its ghost was removed, a pair gets at most one
\* more message, from a listener list that was read before.
THEOREM OneLatePush == DSpec => []AtMostOneLatePush
<1>1. DInit => LateInv
  <2>1. DInit => \A c \in Client, p \in Pair : late[c][p] = 0  BY DEF DInit
  <2>2. QED  BY <2>1 DEF LateInv
<1>2. LateInv => AtMostOneLatePush
  <2> SUFFICES ASSUME LateInv, NEW c \in Client, NEW p \in Pair PROVE late[c][p] <= 1
    BY DEF AtMostOneLatePush
  <2>1. late[c][p] = 0 \/ late[c][p] = 1  BY DEF LateInv
  <2>2. QED  BY <2>1
<1>3. RegistryInv => TypeOK  BY DEF RegistryInv
<1>4. QED  BY <1>1, <1>2, <1>3, LateStep, TypesCorrect, PTL DEF DSpec

(***************************************************************************)
(* Missed updates.                                                          *)
(***************************************************************************)
\* What was published for the pair p of client c has been sent to it, is on its
\* way, or comes with the snapshot its handler is about to make or to send.
Delivered(c, p) ==
    \/ published[p[1]] <= best[c][p]
    \/ OnItsWay(c, p, published[p[1]])
    \/ pc[c] \in {"sub_index", "sub_track"} /\ op[c] = p
    \/ /\ snap[c].pair = p
       /\ snap[c].step = "query" \/ published[p[1]] <= snap[c].version

\* This holds from the moment the listener is added, not only once the
\* subscription is acknowledged: it is what the order of the handler is for.
DeliveredInv ==
    faults = 0 =>
        \A c \in Client, p \in Pair :
            Open(c) /\ <<c, p[2]>> \in listeners[p[1]] => Delivered(c, p)

LEMMA DeliveredRegistry ==
    RegistryInv /\ TypesInv /\ DeliveredInv /\ RegistryStep => DeliveredInv'
<1> SUFFICES ASSUME RegistryInv, TypesInv, DeliveredInv, RegistryStep, faults' = 0,
                    NEW c \in Client, NEW p \in Pair,
                    Open(c)', <<c, p[2]>> \in listeners'[p[1]]
             PROVE  Delivered(c, p)'
  BY DEF DeliveredInv
<1>1. TypeOK /\ [Next]_vars  BY DEF RegistryInv, RegistryStep
<1>2. ListenersGrow /\ HandlersGoOn /\ CrashTakesAll
  BY <1>1, ListenersStep, HandlersStep, CrashStep
<1>3. faults = 0  BY <1>2 DEF HandlersGoOn
<1>4. UNCHANGED consumer  BY <1>2 DEF RegistryStep, ConsumerRestart, CrashTakesAll
<1>5. /\ UNCHANGED published
      /\ best'[c][p] = IF Anew(c, p) THEN None ELSE best[c][p]
  BY DEF RegistryStep, Histories
<1>6. Anew(c, p) <=> Registered(c, p)
  BY DEF Anew, Open, Connected, Registered
<1>7. CASE Registered(c, p)
  <2>1. pc'[c] = "sub_index" /\ op'[c] = p  BY <1>2, <1>7 DEF Registered, HandlersGoOn
  <2>2. QED  BY <2>1 DEF Delivered
<1>8. CASE ~Registered(c, p)
  <2>1. <<c, p[2]>> \in listeners[p[1]]  BY <1>2, <1>8 DEF ListenersGrow
  <2>2. pc[c] # "offline"
    BY <2>1 DEF RegistryInv, GhostInv, MembersConnected, Pair
  <2>3. Open(c)  BY <1>2, <2>2 DEF HandlersGoOn
  <2>4. Delivered(c, p)  BY <1>3, <2>1, <2>3 DEF DeliveredInv
  <2>5. best'[c][p] = best[c][p]  BY <1>5, <1>6, <1>8
  <2>6. CASE published[p[1]] <= best[c][p]  BY <1>5, <2>5, <2>6 DEF Delivered
  <2>7. CASE OnItsWay(c, p, published[p[1]])
    BY <1>4, <1>5, <2>7 DEF Delivered, OnItsWay, consumer
  <2>8. CASE pc[c] \in {"sub_index", "sub_track"} /\ op[c] = p
    <3>1. CASE pc'[c] \in {"sub_index", "sub_track"} /\ op'[c] = op[c]
      BY <2>8, <3>1 DEF Delivered
    <3>2. CASE pc[c] = "sub_track" /\ pc'[c] = "idle"
      <4>1. snap'[c] = [step |-> "query", pair |-> p, version |-> None]
        BY <2>8, <3>2 DEF RegistryStep, Snapshots
      <4>2. QED  BY <4>1 DEF Delivered
    <3>3. QED  BY <1>2, <2>8, <3>1, <3>2 DEF HandlersGoOn
  <2>9. CASE /\ snap[c].pair = p
             /\ snap[c].step = "query" \/ published[p[1]] <= snap[c].version
    <3>1. snap[c] # NoSnap
      <4>1. p # NoPair
        <5>1. PICK h \in Hash, s \in SubId : p = <<h, s>>  BY DEF Pair
        <5>2. QED  BY <5>1 DEF NoPair
      <4>2. NoSnap.pair = NoPair  BY DEF NoSnap
      <4>3. QED  BY <2>9, <4>1, <4>2
    <3>2. pc'[c] = pc[c] /\ pc'[c] # "crashed"
      BY <3>1 DEF RegistryStep, Snapshots, Open, Connected
    <3>3. snap'[c] = snap[c]  BY <3>2 DEF RegistryStep, Snapshots
    <3>4. QED  BY <1>5, <2>9, <3>3 DEF Delivered
  <2>10. QED  BY <2>4, <2>6, <2>7, <2>8, <2>9 DEF Delivered
<1>9. QED  BY <1>7, <1>8

\* A message that is shown makes the subscription as new as the message.
LEMMA ShowRaises ==
    ASSUME TypesInv, faults = 0, NEW c \in Client, NEW p \in Pair, NEW v \in Version,
           Show(c, p, v)
    PROVE  /\ best'[c][p] >= v
           /\ \A d \in Client, q \in Pair : best'[d][q] >= best[d][q]
<1>1. best \in [Client -> [Pair -> Int]] /\ v \in Int
  BY Constants DEF TypesInv, DTypeOK, Version, None
<1>2. best' = [best EXCEPT ![c][p] = IF v > best[c][p] THEN v ELSE best[c][p]]
  BY DEF Show
<1>3. best'[c][p] = IF v > best[c][p] THEN v ELSE best[c][p]  BY <1>1, <1>2
<1>4. ASSUME NEW d \in Client, NEW q \in Pair, ~(d = c /\ q = p)
      PROVE  best'[d][q] = best[d][q]
  BY <1>1, <1>2, <1>4
<1>5. QED  BY <1>1, <1>3, <1>4

LEMMA DeliveredNext ==
    RegistryInv /\ TypesInv /\ DeliveredInv /\ [DNext]_dvars => DeliveredInv'
<1> SUFFICES ASSUME RegistryInv, TypesInv, DeliveredInv, [DNext]_dvars PROVE DeliveredInv'
  OBVIOUS
<1>1. CASE RegistryStep  BY <1>1, DeliveredRegistry
<1>2. CASE PCrash \/ PFail \/ KListFail \/ KDies \/ \E c \in Client : SFail(c)
  <2>1. faults' = faults + 1 /\ faults \in Nat
    BY <1>2, MaxFaultsAssumption DEF PCrash, PFail, KListFail, KDies, SFail, Fault, RegistryInv, TypeOK
  <2>2. QED  BY <2>1 DEF DeliveredInv
<1>3. CASE UNCHANGED vars
  <2> SUFFICES ASSUME faults = 0, NEW c \in Client, NEW p \in Pair,
                      Open(c), <<c, p[2]>> \in listeners[p[1]], Delivered(c, p)
               PROVE  Delivered(c, p)'
    BY <1>3 DEF DeliveredInv, vars, history, redis, handler, Open, Connected
  <2> DEFINE v == published[p[1]]
  <2>a. UNCHANGED <<pc, op>>  BY <1>3 DEF vars, handler
  <2>b. /\ p[1] \in Hash /\ v \in Int /\ best[c][p] \in Int /\ snap[c].version \in Int
        /\ <<c, p[2]>> \in Listener
    BY Constants DEF TypesInv, DTypeOK, Version, None, Pair, Listener
  <2>c. bus \in Seq(Message)  BY DEF TypesInv, DTypeOK, Message
  <2>1. CASE UNCHANGED <<bus, kpc, kMsg, kLeft, snap, best, published>>
    BY <2>1, <2>a DEF Delivered, OnItsWay
  <2>2. CASE PPublish
    <3>1. UNCHANGED <<kpc, kMsg, kLeft, snap, best>>  BY <2>2 DEF PPublish, client
    <3>2. CASE ~Listening  BY <2>1, <2>2, <3>1, <3>2 DEF PPublish
    <3>3. CASE Listening
      <4>1. /\ bus' = Append(bus, <<pHash, pResult>>)
            /\ published' = [published EXCEPT ![pHash] = pResult]
        BY <2>2, <3>3 DEF PPublish
      <4>2. <<pHash, pResult>> \in Message /\ pResult \in Int
        BY <2>2, Constants DEF PPublish, TypesInv, ShapeInv, Message
      <4>3. /\ Len(bus) \in Nat /\ Len(bus') = Len(bus) + 1
            /\ \A i \in 1..Len(bus) : bus'[i] = bus[i]
            /\ bus'[Len(bus) + 1] = <<pHash, pResult>>
        BY <2>c, <4>1, <4>2, AppendProperties, LenProperties
      <4>4. CASE p[1] = pHash
        <5>1. published'[p[1]] = pResult
          BY <2>b, <4>1, <4>4 DEF TypesInv, DTypeOK
        <5>2. OnItsWay(c, p, published[p[1]])'  BY <4>2, <4>3, <4>4, <5>1 DEF OnItsWay
        <5>3. QED  BY <5>2 DEF Delivered
      <4>5. CASE p[1] # pHash
        <5>1. published'[p[1]] = v  BY <2>b, <4>1, <4>5 DEF TypesInv, DTypeOK
        <5>2. OnItsWay(c, p, v) => OnItsWay(c, p, published[p[1]])'
          BY <3>1, <4>3, <5>1 DEF OnItsWay
        <5>3. QED  BY <2>a, <3>1, <5>1, <5>2 DEF Delivered
      <4>6. QED  BY <4>4, <4>5
    <3>4. QED  BY <3>2, <3>3
  <2>3. CASE KSubscribe
    <3>1. kLeft = {} /\ kpc # "list"  BY <2>3 DEF KSubscribe, TypesInv, ShapeInv
    <3>2. /\ UNCHANGED <<bus, kMsg, kLeft, snap, best, published>>
      BY <2>3 DEF KSubscribe, client
    <3>3. QED  BY <2>a, <3>1, <3>2 DEF Delivered, OnItsWay
  <2>4. CASE KReceive
    <3>1. /\ kLeft = {} /\ kpc # "list" /\ bus # <<>>
          /\ kMsg' = Head(bus) /\ bus' = Tail(bus) /\ kpc' = "list"
          /\ UNCHANGED <<snap, best, published>>
      BY <2>4 DEF KReceive, TypesInv, ShapeInv, client
    <3>2. OnItsWay(c, p, v) => OnItsWay(c, p, published[p[1]])'
      <4> SUFFICES ASSUME NEW i \in 1..Len(bus), bus[i][1] = p[1], bus[i][2] >= v
                   PROVE  OnItsWay(c, p, published[p[1]])'
        BY <3>1 DEF OnItsWay
      <4>1. CASE i = 1
        <5>1. kMsg' = bus[1]  BY <2>c, <3>1
        <5>2. QED  BY <3>1, <4>1, <5>1 DEF OnItsWay
      <4>2. CASE i # 1
        <5>1. /\ Len(bus) \in Nat /\ Len(bus') = Len(bus) - 1
              /\ \A j \in 1..Len(bus') : bus'[j] = bus[j + 1]
          BY <2>c, <3>1, HeadTailProperties, LenProperties
        <5>2. i - 1 \in 1..Len(bus') /\ bus'[i - 1] = bus[i]  BY <4>2, <5>1
        <5>3. QED  BY <3>1, <5>2 DEF OnItsWay
      <4>3. QED  BY <4>1, <4>2
    <3>3. QED  BY <2>a, <3>1, <3>2 DEF Delivered
  <2>5. CASE KList
    <3>1. /\ kLeft = {} /\ kpc = "list" /\ kLeft' = listeners[kMsg[1]]
          /\ UNCHANGED <<bus, snap, best, published>>
          /\ kLeft' # {} => kMsg' = kMsg
      BY <2>5 DEF KList, TypesInv, ShapeInv, client
    <3>2. OnItsWay(c, p, v) => OnItsWay(c, p, published[p[1]])'  BY <3>1 DEF OnItsWay
    <3>3. QED  BY <2>a, <3>1, <3>2 DEF Delivered
  <2>6. ASSUME NEW m \in Listener, KSend(m) PROVE Delivered(c, p)'
    <3>1. /\ kpc = "send" /\ m \in kLeft /\ kLeft' = kLeft \ {m}
          /\ UNCHANGED <<bus, snap, published>>
          /\ kLeft' # {} => kMsg' = kMsg
      BY <2>6 DEF KSend
    <3>2. /\ m[1] \in Client /\ <<kMsg[1], m[2]>> \in Pair /\ kMsg[2] \in Version
          /\ m = <<m[1], m[2]>>
      BY <2>6, NothingSent DEF KSend, TypesInv, ShapeInv, Message, Listener, Pair
    <3>3. best'[c][p] >= best[c][p]
      BY <2>6, <2>b, <3>2, ShowRaises DEF KSend, client
    <3>4. best'[c][p] \in Int
      <4>1. best' \in [Client -> [Pair -> Version]]
        <5>1. CASE Show(m[1], <<kMsg[1], m[2]>>, kMsg[2])
          BY <3>2, <5>1, ShowType DEF TypesInv, DTypeOK
        <5>2. CASE UNCHANGED client  BY <5>2 DEF client, TypesInv, DTypeOK
        <5>3. QED  BY <2>6, <5>1, <5>2 DEF KSend, client
      <4>2. QED  BY <4>1, Constants DEF Version, None
    <3>5. CASE OnItsWay(c, p, v)
      <4>1. CASE \E i \in 1..Len(bus) : bus[i][1] = p[1] /\ bus[i][2] >= v
        BY <3>1, <4>1 DEF Delivered, OnItsWay
      <4>2. CASE kMsg[1] = p[1] /\ kMsg[2] >= v /\ <<c, p[2]>> \in kLeft /\ m # <<c, p[2]>>
        BY <3>1, <4>2 DEF Delivered, OnItsWay
      <4>3. CASE kMsg[1] = p[1] /\ kMsg[2] >= v /\ m = <<c, p[2]>>
        <5>1. m[1] = c /\ m[2] = p[2] /\ p = <<kMsg[1], m[2]>>  BY <4>3 DEF Pair
        <5>2. Show(c, p, kMsg[2])  BY <2>6, <5>1 DEF KSend
        <5>3. best'[c][p] >= kMsg[2]  BY <3>2, <5>2, ShowRaises
        <5>4. kMsg[2] \in Int  BY <3>2, Constants DEF Version, None
        <5>5. QED  BY <2>b, <3>1, <3>4, <4>3, <5>3, <5>4 DEF Delivered
      <4>4. QED  BY <3>1, <3>5, <4>1, <4>2, <4>3 DEF OnItsWay
    <3>6. QED  BY <2>a, <2>b, <3>1, <3>3, <3>4, <3>5 DEF Delivered
  <2>7. ASSUME NEW d \in Client, SQuery(d) PROVE Delivered(c, p)'
    <3>1. UNCHANGED <<bus, kpc, kMsg, kLeft, best, published>>
      BY <2>7 DEF SQuery, consumer, client
    <3>2. d # c => snap'[c] = snap[c]  BY <2>7 DEF SQuery, TypesInv, DTypeOK
    <3>3. d = c => snap[c].step = "query" /\ snap'[c].pair = snap[c].pair /\ snap'[c].version = db
      BY <2>7 DEF SQuery, TypesInv, DTypeOK
    <3>4. v <= db  BY <2>b DEF TypesInv, ShapeInv
    <3>5. QED  BY <2>a, <3>1, <3>2, <3>3, <3>4 DEF Delivered, OnItsWay
  <2>8. ASSUME NEW d \in Client, SSend(d) PROVE Delivered(c, p)'
    <3>1. UNCHANGED <<bus, kpc, kMsg, kLeft, published>>  BY <2>8 DEF SSend, consumer
    <3>2. d # c => snap'[c] = snap[c]  BY <2>8 DEF SSend, TypesInv, DTypeOK
    <3>3. /\ snap[d].step = "send" /\ snap[d].pair \in Pair /\ snap[d].version \in Version
          /\ Show(d, snap[d].pair, snap[d].version)
      BY <2>8 DEF SSend, TypesInv, DTypeOK, ShapeInv
    <3>4. /\ best'[d][snap[d].pair] >= snap[d].version
          /\ best'[c][p] >= best[c][p]
      BY <3>3, ShowRaises
    <3>5. best'[c][p] \in Int
      <4>1. best' \in [Client -> [Pair -> Version]]
        BY <3>3, ShowType DEF TypesInv
      <4>2. QED  BY <4>1, Constants DEF Version, None
    <3>6. CASE d = c /\ snap[c].pair = p
      BY <2>a, <2>b, <3>1, <3>3, <3>4, <3>5, <3>6 DEF Delivered, OnItsWay
    <3>7. CASE ~(d = c /\ snap[c].pair = p)
      BY <2>a, <2>b, <3>1, <3>2, <3>4, <3>5, <3>7 DEF Delivered, OnItsWay
    <3>8. QED  BY <3>6, <3>7
  <2>9. CASE RegistryStep \/ PCrash \/ PFail \/ KListFail \/ KDies \/ \E d \in Client : SFail(d)
    <3>1. DeliveredInv'  BY <1>1, <1>2, <2>9
    <3>2. QED  BY <1>3, <3>1 DEF DeliveredInv, vars, history, redis, handler, Open, Connected
  <2>10. CASE NewData \/ PScan \/ PRegistry \/ PQuery \/ PNothing \/ UNCHANGED dvars
              \/ \E h \in Hash : PListeners(h)
    BY <2>1, <2>10 DEF NewData, PScan, PRegistry, PQuery, PNothing, PListeners, dvars, consumer, client
  <2>11. QED
    BY <2>2, <2>3, <2>4, <2>5, <2>6, <2>7, <2>8, <2>9, <2>10
       DEF DNext, PollerStep, ConsumerStep, SnapshotStep
<1>4. QED
  BY <1>1, <1>2, <1>3 DEF DNext, dvars, NewData, PollerStep, ConsumerStep, SnapshotStep, PScan,
     PRegistry, PQuery, PNothing, PPublish, PListeners, KSubscribe, KReceive, KList, KSend, SQuery, SSend

\* Once a subscription has its snapshot, every version published for it was
\* sent to it, or a newer one was, or is on its way: the listener is added
\* before the database is queried (server.py:263-271), and it stays
\* (SubscriptionKept).
THEOREM NothingMissed == DSpec => []NoMissedUpdate
<1>1. DInit => DeliveredInv
  BY DEF DInit, Init, DeliveredInv, Open, Connected
<1>2. RegistryInv /\ DeliveredInv => NoMissedUpdate
  <2> SUFFICES ASSUME RegistryInv, DeliveredInv, NEW c \in Client, NEW p \in Pair,
                      Subscribed(c, p), snap[c].pair # p, faults = 0
               PROVE  published[p[1]] <= best[c][p] \/ OnItsWay(c, p, published[p[1]])
    BY DEF NoMissedUpdate
  <2>1. <<c, p[2]>> \in listeners[p[1]]
    BY KeptInComposition DEF Subscribed, Open, SubscriptionKept
  <2>2. Delivered(c, p)  BY <2>1 DEF DeliveredInv, Subscribed
  <2>3. QED  BY <2>2 DEF Delivered, Subscribed
<1>3. QED  BY <1>1, <1>2, DeliveredNext, TypesCorrect, PTL DEF DSpec
=============================================================================
