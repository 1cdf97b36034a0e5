------------------------- MODULE GoldenSessionProofs -------------------------
(***************************************************************************)
(* A host at the device's ports, for any sessions: whatever it calls is a  *)
(* clock of the dispatcher or none, so what holds of the dispatcher holds  *)
(* under every host; whose grid it waits for; and that what it reads is    *)
(* what the golden model computes.                                         *)
(***************************************************************************)
EXTENDS GoldenSession, CtaDispatchProofs, SequenceTheorems

\* Under a host.

\* The grid that runs, or that the host is told of, is of its own call or of one that it
\* gave up on, as it did on every one it has launched since.
Owned ==
  \/ owner = call
  \/ /\ owner \in timedOut
     /\ \A k \in owner + 1 .. call - 1 : session.calls[k].op = "dispatch" => k \in timedOut

\* A host waits only in a dispatch, and the launch taken last is its own only while it does.
OwnerInv ==
  /\ waiting => Doing("dispatch")
  /\ owner \in 0 .. call
  /\ owner = call => waiting
  /\ dstate # "IDLE" \/ (waiting /\ grid_done) => Owned

\* A host has an entry for each load it has been through.
EntriesInv ==
  /\ session \in Sessions /\ call \in Nat \ {0}
  /\ Len(entries) = Cardinality(Loads(session, call - 1)) /\ DOMAIN entries = 1 .. Len(entries)
  /\ \A i \in DOMAIN entries : \E k \in Loads(session, call - 1) :
       entries[i] = Entry(load_gpubin(session.calls[k].file), session.calls[k].off)

HostInv == OwnerInv /\ EntriesInv

-----------------------------------------------------------------------------
\* The programs loaded so far can be counted.
LEMMA LoadsFinite ==
  ASSUME NEW s, NEW n \in Nat
  PROVE  IsFiniteSet(Loads(s, n)) /\ Cardinality(Loads(s, n)) \in Nat
  <1>1. IsFiniteSet(1 .. n)
    BY FS_Interval
  <1>2. Loads(s, n) \subseteq 1 .. n
    BY DEF Loads
  <1> QED
    BY <1>1, <1>2, FS_Subset, FS_CardinalityType

\* One call more is one load more if it is one.
LEMMA LoadsNext ==
  ASSUME NEW s, NEW n \in Nat \ {0}
  PROVE  /\ s.calls[n].op = "load" =>
              /\ Loads(s, n) = Loads(s, n - 1) \cup {n}
              /\ Cardinality(Loads(s, n)) = Cardinality(Loads(s, n - 1)) + 1
         /\ s.calls[n].op # "load" => Loads(s, n) = Loads(s, n - 1)
  <1>1. 1 .. n = (1 .. n - 1) \cup {n} /\ n \notin 1 .. n - 1
    OBVIOUS
  <1>2. n \notin Loads(s, n - 1)
    BY <1>1 DEF Loads
  <1>3. s.calls[n].op = "load" => Loads(s, n) = Loads(s, n - 1) \cup {n}
    BY <1>1 DEF Loads
  <1>4. s.calls[n].op # "load" => Loads(s, n) = Loads(s, n - 1)
    BY <1>1 DEF Loads
  <1>5. Cardinality(Loads(s, n - 1) \cup {n}) = Cardinality(Loads(s, n - 1)) + 1
    BY <1>2, LoadsFinite, FS_AddElement
  <1> QED
    BY <1>3, <1>4, <1>5

\* What a tick does to the dispatcher: it waits, takes the launch, or goes on.
LEMMA TickCases ==
  ASSUME NEW launch, NEW put, SimTick(launch, put)
  PROVE  /\ Clock
         /\ \/ dstate = "IDLE" /\ launch = {} /\ Wait
            \/ dstate = "IDLE" /\ \E d \in launch : Launch(grid_nx', d)
            \/ dstate # "IDLE" /\ Busy
  <1>1. /\ Clock
        /\ \/ dstate = "IDLE" /\ launch = {} /\ Wait
           \/ dstate = "IDLE" /\ \E d \in launch : Launch(grid_nx', d)
           \/ Busy
    BY Zenon DEF SimTick, Clock
  <1>2. Busy => dstate # "IDLE"
    BY DEF Busy, Dispatch, Occupied, Drain, Undrained, FlushPulse, FlushWait
  <1> QED
    BY <1>1, <1>2

\* A clock under a legal launch is a step of the dispatcher.
LEMMA TickStep ==
  ASSUME NEW launch, NEW put, SimTick(launch, put),
         launch \subseteq Descriptors, launch # {} => grid_nx' \in GridSizes
  PROVE  Next
  <1>1. PICK over \in SUBSET running, rep \in SUBSET flushing, l2rep \in BOOLEAN :
          /\ Tick(over, rep, l2rep)
          /\ \/ dstate = "IDLE" /\ launch = {} /\ Wait
             \/ dstate = "IDLE" /\ \E d \in launch : Launch(grid_nx', d)
             \/ Busy
    BY Zenon DEF SimTick
  <1>2. (\E d \in launch : Launch(grid_nx', d)) =>
          \E nx \in GridSizes, d \in Descriptors : Launch(nx, d)
    <2> SUFFICES ASSUME NEW d \in launch, Launch(grid_nx', d)
                 PROVE  \E nx \in GridSizes, e \in Descriptors : Launch(nx, e)
      OBVIOUS
    <2>1. d \in Descriptors /\ grid_nx' \in GridSizes
      OBVIOUS
    <2> QED
      BY <2>1, Zenon
  <1>3. Idle \/ Busy
    BY <1>1, <1>2, Zenon DEF Idle
  <1> QED
    BY <1>1, <1>3, Zenon DEF Next

\* What a dispatch asks for is among the grids considered.
LEMMA LaunchIsLegal ==
  ASSUME EntriesInv, Doing("dispatch"), call <= Len(session.calls)
  PROVE  Now.nx \in GridSizes /\ [tpb |-> Now.tpb, entry |-> entries[Now.prog]] \in Descriptors
  <1>1. call \in 1 .. Len(session.calls)
    BY SessionsAssumption DEF EntriesInv
  <1>2. Now.op = "dispatch" /\ Now = session.calls[call]
    BY DEF Doing, Now
  <1>3. /\ Now.nx \in GridSizes
        /\ Now.prog \in 1 .. Cardinality(Loads(session, call - 1))
        /\ \A j \in Loads(session, call - 1) :
             [tpb |-> Now.tpb, entry |-> Entry(load_gpubin(session.calls[j].file), session.calls[j].off)]
               \in Descriptors
    BY <1>1, <1>2, SessionsAssumption DEF EntriesInv
  <1>4. Now.prog \in DOMAIN entries
    BY <1>3 DEF EntriesInv
  <1>5. PICK k \in Loads(session, call - 1) :
          entries[Now.prog] = Entry(load_gpubin(session.calls[k].file), session.calls[k].off)
    BY <1>4 DEF EntriesInv
  <1> QED
    BY <1>3, <1>5

-----------------------------------------------------------------------------
\* Whatever a host does, the dispatcher takes a step of its own or none.
LEMMA DeviceStep ==
  ASSUME EntriesInv, [HostNext]_allVars
  PROVE  [Next]_vars
  <1>1. CASE \/ Loaded \/ LoadFails \/ memRead \/ Return \/ GiveUp \/ Ended \/ UNCHANGED allVars
    <2>1. UNCHANGED vars
      BY <1>1, Zenon DEF Loaded, LoadFails, memRead, Return, GiveUp, Ended, allVars
    <2> QED
      BY <2>1
  <1>2. CASE LoadWord \/ setConst \/ memWrite \/ Await
    <2>1. \E put : SimTick({}, put)
      BY <1>2, Zenon DEF LoadWord, setConst, memWrite, Await
    <2> QED
      BY <2>1, TickStep
  <1>3. CASE dispatch
    <2>1. /\ SimTick({[tpb |-> Now.tpb, entry |-> entries[Now.prog]]}, NoWrite)
          /\ Doing("dispatch") /\ grid_nx' = Now.nx
      BY <1>3, Zenon DEF dispatch
    <2>2. Now.nx \in GridSizes /\ [tpb |-> Now.tpb, entry |-> entries[Now.prog]] \in Descriptors
      BY <2>1, LaunchIsLegal DEF Doing
    <2> QED
      BY <2>1, <2>2, TickStep
  <1> QED
    BY <1>1, <1>2, <1>3 DEF HostNext, Calls

-----------------------------------------------------------------------------
\* What a step does to the host's place in its session.
LEMMA Entered ==
  ASSUME EntriesInv, UNCHANGED <<session, entries>>,
         call' = call \/ (call' = call + 1 /\ session.calls[call].op # "load")
  PROVE  EntriesInv'
  <1>1. Loads(session, call' - 1) = Loads(session, call - 1)
    <2>1. call \in Nat \ {0}
      BY DEF EntriesInv
    <2>2. CASE call' = call
      BY <2>2
    <2>3. CASE call' = call + 1 /\ session.calls[call].op # "load"
      <3>1. call' - 1 = call
        BY <2>1, <2>3
      <3> QED
        BY <2>1, <2>3, <3>1, LoadsNext
    <2> QED
      BY <2>2, <2>3
  <1>2. Loads(session, call - 1)' = Loads(session, call - 1)
    BY <1>1 DEF Loads
  <1>3. call' \in Nat \ {0}
    BY DEF EntriesInv
  <1> QED
    BY <1>2, <1>3 DEF EntriesInv

\* The host's list of entries grows with the programs it loads.
LEMMA EntriesStep ==
  ASSUME HostInv, [HostNext]_allVars
  PROVE  EntriesInv'
  <1>0. OwnerInv /\ EntriesInv /\ call \in Nat \ {0}
    BY DEF HostInv, EntriesInv
  <1>1. CASE Loaded
    <2> DEFINE e == Entry(load_gpubin(Now.file), Now.off)
    <2>1. /\ session.calls[call].op = "load" /\ call' = call + 1 /\ session' = session
          /\ entries' = Append(entries, e)
          /\ e = Entry(load_gpubin(session.calls[call].file), session.calls[call].off)
      BY <1>1 DEF Loaded, Doing, Now, NextCall
    <2> HIDE DEF e
    <2>2. call' - 1 = call
      BY <1>0, <2>1
    <2>3. /\ Loads(session, call) = Loads(session, call - 1) \cup {call}
          /\ Cardinality(Loads(session, call)) = Cardinality(Loads(session, call - 1)) + 1
      BY <1>0, <2>1, LoadsNext
    <2>4. Loads(session, call - 1)' = Loads(session, call)
      BY <2>1, <2>2 DEF Loads
    <2>5. Cardinality(Loads(session, call - 1)) \in Nat
      BY <1>0, LoadsFinite
    <2>6. /\ Len(entries') = Len(entries) + 1 /\ DOMAIN entries' = 1 .. Len(entries')
          /\ \A i \in 1 .. Len(entries) : entries'[i] = entries[i]
          /\ entries'[Len(entries) + 1] = e
      BY <1>0, <2>1, <2>5 DEF EntriesInv
    <2>7. Len(entries') = Cardinality(Loads(session, call - 1)')
      BY <1>0, <2>3, <2>4, <2>6 DEF EntriesInv
    <2>8. \A i \in 1 .. Len(entries') : \E k \in Loads(session, call - 1)' :
            entries'[i] = Entry(load_gpubin(session.calls[k].file), session.calls[k].off)
      <3> SUFFICES ASSUME NEW i \in 1 .. Len(entries')
                   PROVE  \E k \in Loads(session, call) :
                            entries'[i] = Entry(load_gpubin(session.calls[k].file), session.calls[k].off)
        BY <2>4
      <3>1. CASE i = Len(entries) + 1
        BY <2>1, <2>3, <2>6, <3>1
      <3>2. CASE i \in 1 .. Len(entries)
        BY <1>0, <2>3, <2>6, <3>2 DEF EntriesInv
      <3> QED
        BY <1>0, <2>5, <2>6, <3>1, <3>2 DEF EntriesInv
    <2>9. EntriesInv /\ session \in Sessions
      BY <1>0 DEF EntriesInv
    <2> QED
      BY <1>0, <2>1, <2>2, <2>6, <2>7, <2>8, <2>9 DEF EntriesInv
  <1>2. CASE setConst \/ memWrite \/ memRead
    <2>1. /\ call' = call + 1 /\ UNCHANGED <<session, entries>>
          /\ session.calls[call].op # "load"
      BY <1>2 DEF setConst, memWrite, memRead, NextCall, Doing, Now
    <2> QED
      BY <1>0, <2>1, Entered
  <1>3. CASE Return \/ GiveUp
    <2>1. call' = call + 1 /\ UNCHANGED <<session, entries>> /\ waiting
      BY <1>3 DEF Return, GiveUp, NextCall
    <2>2. session.calls[call].op # "load"
      BY <1>0, <2>1 DEF OwnerInv, Doing, Now
    <2> QED
      BY <1>0, <2>1, <2>2, Entered
  <1>4. CASE LoadWord \/ LoadFails \/ dispatch \/ Await \/ Ended \/ UNCHANGED allVars
    <2>1. call' = call /\ UNCHANGED <<session, entries>>
      BY <1>4 DEF LoadWord, LoadFails, dispatch, Await, Ended, allVars, hostVars, callVars
    <2> QED
      BY <1>0, <2>1, Entered
  <1> QED
    BY <1>1, <1>2, <1>3, <1>4 DEF HostNext, Calls

-----------------------------------------------------------------------------
\* The dispatcher's grid stays the owner's while the host goes on.
LEMMA OwnerStep ==
  ASSUME HostInv, IInv, [HostNext]_allVars
  PROVE  OwnerInv'
  <1>0. OwnerInv /\ EntriesInv /\ call \in Nat \ {0} /\ owner \in 0 .. call
    BY DEF HostInv, EntriesInv, OwnerInv
  <1>1. grid_done => dstate = "IDLE"
    BY DEF IInv, PhaseInv
  <1>2. ASSUME NEW put, SimTick({}, put)
        PROVE  dstate' # "IDLE" \/ grid_done' => dstate # "IDLE"
    <2>1. \/ dstate = "IDLE" /\ Wait
          \/ dstate # "IDLE"
      BY <1>2, TickCases
    <2> QED
      BY <2>1 DEF Wait, NoPulse
  \* A call that is not a dispatch leaves the owner behind it, if it goes on at all.
  <1>3. ASSUME UNCHANGED <<session, owner, timedOut, waiting, stopped>>, ~waiting,
               call' = call \/ (call' = call + 1 /\ session.calls[call].op # "dispatch"),
               dstate' # "IDLE" => dstate # "IDLE"
        PROVE  OwnerInv'
    <2>1. owner \in 0 .. call' /\ owner # call /\ owner # call'
      BY <1>0, <1>3 DEF OwnerInv
    <2>2. dstate' # "IDLE" => Owned'
      <3> SUFFICES ASSUME dstate' # "IDLE" PROVE Owned'
        OBVIOUS
      <3>1. Owned /\ owner # call
        BY <1>0, <1>3, <2>1 DEF OwnerInv
      <3>2. /\ owner \in timedOut
            /\ \A k \in owner + 1 .. call - 1 : session.calls[k].op = "dispatch" => k \in timedOut
        BY <3>1 DEF Owned
      <3>3. \A k \in owner + 1 .. call' - 1 : session.calls[k].op = "dispatch" => k \in timedOut
        BY <1>0, <1>3, <3>2
      <3> QED
        BY <1>3, <3>2, <3>3 DEF Owned
    <2> QED
      BY <1>3, <2>1, <2>2 DEF OwnerInv
  <1>4. CASE LoadWord \/ setConst \/ memWrite
    <2>1. /\ UNCHANGED <<session, owner, timedOut, waiting, stopped>>
          /\ call' = call \/ (call' = call + 1 /\ session.calls[call].op # "dispatch")
          /\ Doing("load") \/ Doing("const") \/ Doing("write")
          /\ \E put : SimTick({}, put)
      BY <1>4 DEF LoadWord, setConst, memWrite, Doing, Now, NextCall
    <2>2. ~waiting
      BY <1>0, <2>1 DEF OwnerInv, Doing
    <2> QED
      BY <1>2, <1>3, <2>1, <2>2
  <1>5. CASE Loaded \/ memRead
    <2>1. /\ UNCHANGED <<session, owner, timedOut, waiting, stopped>>
          /\ call' = call + 1 /\ session.calls[call].op # "dispatch"
          /\ Doing("load") \/ Doing("read")
          /\ dstate' = dstate
      BY <1>5 DEF Loaded, memRead, Doing, Now, NextCall, vars, dispatchVars
    <2>2. ~waiting
      BY <1>0, <2>1 DEF OwnerInv, Doing
    <2> QED
      BY <1>3, <2>1, <2>2
  <1>6. CASE dispatch
    <2>1. /\ UNCHANGED <<session, call, timedOut, stopped>> /\ waiting' = TRUE /\ ~waiting
          /\ Doing("dispatch")
          /\ owner' = IF dstate = "IDLE" THEN call ELSE owner
      BY <1>6 DEF dispatch
    <2>2. Doing("dispatch")' /\ owner' \in 0 .. call'
      BY <1>0, <2>1 DEF Doing, Now
    <2>3. CASE dstate = "IDLE"
      BY <2>1, <2>2, <2>3 DEF OwnerInv, Owned
    <2>4. CASE dstate # "IDLE"
      <3>1. Owned /\ owner' = owner
        BY <1>0, <2>1, <2>4 DEF OwnerInv
      <3>2. Owned'
        BY <2>1, <3>1 DEF Owned
      <3> QED
        BY <2>1, <2>2, <3>2 DEF OwnerInv
    <2> QED
      BY <2>3, <2>4
  <1>7. CASE Await
    <2>1. UNCHANGED <<session, call, timedOut, stopped, waiting, owner>> /\ SimTick({}, NoWrite) /\ waiting
      BY <1>7 DEF Await, callVars
    <2>2. dstate' # "IDLE" \/ grid_done' => Owned
      BY <1>0, <1>2, <2>1 DEF OwnerInv
    <2>3. (Owned <=> Owned') /\ Doing("dispatch")'
      BY <1>0, <2>1 DEF Owned, Doing, Now, OwnerInv
    <2> QED
      BY <1>0, <2>1, <2>2, <2>3 DEF OwnerInv
  <1>8. CASE Return
    <2>1. /\ waiting' = FALSE /\ call' = call + 1 /\ owner' = owner /\ dstate' = dstate /\ grid_done
      BY <1>8 DEF Return, NextCall, vars, dispatchVars
    <2>2. dstate' = "IDLE" /\ owner' \in 0 .. call' /\ owner' # call'
      BY <1>0, <1>1, <2>1
    <2> QED
      BY <2>1, <2>2 DEF OwnerInv
  <1>9. CASE GiveUp
    <2>1. /\ waiting /\ waiting' = FALSE /\ call' = call + 1 /\ owner' = owner /\ dstate' = dstate
          /\ timedOut' = timedOut \cup {call} /\ session' = session
      BY <1>9 DEF GiveUp, NextCall, vars, dispatchVars
    <2>2. owner' \in 0 .. call' /\ owner' # call'
      BY <1>0, <2>1
    <2>3. ASSUME dstate' # "IDLE" PROVE Owned'
      <3>1. Owned
        BY <1>0, <2>1, <2>3 DEF OwnerInv
      <3>2. owner \in timedOut'
        BY <2>1, <3>1 DEF Owned
      <3>3. \A k \in owner + 1 .. call : session.calls[k].op = "dispatch" => k \in timedOut'
        BY <1>0, <2>1, <3>1 DEF Owned
      <3> QED
        BY <1>0, <2>1, <3>2, <3>3 DEF Owned
    <2> QED
      BY <2>1, <2>2, <2>3 DEF OwnerInv
  <1>10. CASE LoadFails
    <2>1. /\ UNCHANGED <<session, call, owner, timedOut, waiting, dstate>> /\ Doing("load")
      BY <1>10 DEF LoadFails, vars, dispatchVars
    <2>2. ~waiting
      BY <1>0, <2>1 DEF OwnerInv, Doing
    <2>3. Owned <=> Owned'
      BY <2>1 DEF Owned
    <2> QED
      BY <1>0, <2>1, <2>2, <2>3 DEF OwnerInv
  <1>11. CASE Ended \/ UNCHANGED allVars
    <2>1. UNCHANGED <<session, call, owner, timedOut, waiting, stopped, dstate, grid_done>>
      BY <1>11 DEF Ended, allVars, hostVars, callVars, vars, dispatchVars
    <2>2. (Owned <=> Owned') /\ (Doing("dispatch") <=> Doing("dispatch")')
      BY <2>1 DEF Owned, Doing, Now
    <2> QED
      BY <1>0, <2>1, <2>2 DEF OwnerInv
  <1> QED
    BY <1>4, <1>5, <1>6, <1>7, <1>8, <1>9, <1>10, <1>11 DEF HostNext, Calls

\* A host begins with no call made.
LEMMA HostInitially == HostInit => HostInv
  <1> SUFFICES ASSUME HostInit PROVE HostInv
    OBVIOUS
  <1>1. call = 1 /\ owner = 0 /\ ~waiting /\ entries = <<>> /\ session \in Sessions /\ dstate = "IDLE"
    BY DEF HostInit, Init
  <1>2. OwnerInv
    BY <1>1 DEF OwnerInv
  <1>3. Loads(session, call - 1) = {}
    BY <1>1 DEF Loads
  <1>4. Cardinality({}) = 0
    BY FS_EmptySet
  <1>5. Len(entries) = 0 /\ DOMAIN entries = {} /\ 1 .. 0 = {} /\ call \in Nat \ {0}
    BY <1>1
  <1>6. EntriesInv
    BY <1>1, <1>3, <1>4, <1>5 DEF EntriesInv
  <1> QED
    BY <1>2, <1>6 DEF HostInv

-----------------------------------------------------------------------------
\* Under every host the dispatcher behaves as CtaDispatch describes it: no call, in
\* whatever state it finds the device, drives it out of its protocol.
LEMMA HostInvariant == HostSpec => [](HostInv /\ IInv)
  <1>1. HostInit => HostInv /\ IInv
    BY HostInitially, Initially DEF HostInit
  <1>2. HostInv /\ IInv /\ [HostNext]_allVars => HostInv' /\ IInv'
    <2> SUFFICES ASSUME HostInv, IInv, [HostNext]_allVars PROVE HostInv' /\ IInv'
      OBVIOUS
    <2>1. [Next]_vars
      BY DeviceStep DEF HostInv
    <2>2. IInv'
      BY <2>1, Preserved
    <2> QED
      BY <2>2, OwnerStep, EntriesStep DEF HostInv
  <1> QED
    BY <1>1, <1>2, PTL DEF HostSpec

\* Whatever a host calls and when, the dispatcher under it makes the steps of its own
\* specification: a call never reaches it in a state where it does not expect one.
THEOREM HostDrivesDispatcher == HostSpec => Spec
  <1>1. HostInit => Init
    BY DEF HostInit
  <1>2. HostInv /\ [HostNext]_allVars => [Next]_vars
    BY DeviceStep DEF HostInv
  <1> QED
    BY <1>1, <1>2, HostInvariant, PTL DEF HostSpec, Spec

\* Whatever a host calls and when, whether it waits for its grids or not: every grid that
\* the device takes runs each of its blocks once and is reported once, after all of them.
THEOREM GridUnderHost == HostSpec => GridSpec
  BY HostDrivesDispatcher, GridImplemented, PTL

\* Under any host the dispatcher's registers keep their types.
THEOREM HostTypes == HostSpec => []TypeOK
  BY HostInvariant, PTL DEF IInv

\* A dispatch that returns in time has waited for its own grid or, if the host has given up
\* on every dispatch since, on the grid it gave up on first.
THEOREM OwnGridHolds == HostSpec => []OwnGrid
  <1>1. HostInv => OwnGrid
    BY DEF HostInv, OwnerInv, Owned, OwnGrid
  <1> QED
    BY <1>1, HostInvariant, PTL

-----------------------------------------------------------------------------
\* Kernels and files.

\* A kernel depends on the words it fetches only.
LEMMA SameKernel ==
  ASSUME NEW v, NEW w, NEW d, NEW e, NEW const, NEW nx, NEW old,
         Fetched(v, d) = Fetched(w, e)
  PROVE  Kernel(v, d, const, nx, old) = Kernel(w, e, const, nx, old)
  BY Zenon DEF Kernel

\* A program in the instruction memory is fetched as it was written.
LEMMA SameWords ==
  ASSUME NEW p \in Program, NEW words, NEW off \in Nat,
         DOMAIN words = 0 .. ImemWords - 1, off .. off + Len(p.code) - 1 \subseteq 0 .. ImemWords - 1,
         \A a \in 0 .. Len(p.code) - 1 : words[off + a] = p.code[a + 1],
         \E a \in p.entry .. Len(p.code) - 1 : p.code[a + 1] = EXIT
  PROVE  Fetched(words, off + p.entry) = Fetched(Words(p), p.entry)
  <1>0. p.entry \in Nat /\ p.code \in Seq(Int) /\ Len(p.code) \in Nat /\ ImemWords \in Nat
    BY ProperAssumption DEF Program
  <1> DEFINE n == Len(p.code)
             w == Words(p)
             entry == p.entry
  <1>1. /\ DOMAIN w = 0 .. n - 1 /\ \A a \in 0 .. n - 1 : w[a] = words[off + a]
    BY <1>0 DEF Words
  <1>2. PICK x \in entry .. n - 1 : w[x] = EXIT
    BY <1>0 DEF Words
  <1> HIDE DEF w
  <1>3. n \in Nat /\ entry \in Nat /\ x \in Nat /\ entry <= x /\ x < n
    BY <1>0, <1>2
  <1> HIDE DEF n, entry
  <1>4. ASSUME NEW b \in 0 .. ImemWords - 1, b >= off + entry,
               \A c \in off + entry .. b - 1 : words[c] # EXIT
        PROVE  /\ b - off \in 0 .. n - 1 /\ b - off >= entry
               /\ \A c \in entry .. b - off - 1 : w[c] # EXIT
    <2>1. ~(off + x < b)
      <3>1. words[off + x] = EXIT
        BY <1>1, <1>2, <1>3
      <3>2. off + x < b => off + x \in off + entry .. b - 1
        BY <1>3
      <3> QED
        BY <1>4, <3>1, <3>2
    <2>2. b - off \in 0 .. n - 1
      BY <1>3, <1>4, <2>1
    <2>3. ASSUME NEW c \in entry .. b - off - 1 PROVE w[c] # EXIT
      <3>1. off + c \in off + entry .. b - 1 /\ c \in 0 .. n - 1
        BY <1>3, <2>2, <2>3
      <3> QED
        BY <1>1, <1>4, <3>1
    <2> QED
      BY <1>3, <1>4, <2>2, <2>3
  <1>5. ASSUME NEW b \in 0 .. n - 1, b >= entry, \A c \in entry .. b - 1 : w[c] # EXIT
        PROVE  /\ off + b \in 0 .. ImemWords - 1 /\ off + b >= off + entry
               /\ \A c \in off + entry .. off + b - 1 : words[c] # EXIT
    <2>1. off + b \in off .. off + n - 1
      BY <1>3, <1>5
    <2>2. off + b \in 0 .. ImemWords - 1
      BY <2>1 DEF n
    <2>3. ASSUME NEW c \in off + entry .. off + b - 1 PROVE words[c] # EXIT
      <3>1. c - off \in entry .. b - 1 /\ c - off \in 0 .. n - 1 /\ off + (c - off) = c
        BY <1>3, <1>5, <2>3
      <3> QED
        BY <1>1, <1>5, <3>1
    <2> QED
      BY <1>3, <1>5, <2>2, <2>3
  <1> DEFINE A == {b \in 0 .. ImemWords - 1 :
                     b >= off + entry /\ \A c \in off + entry .. b - 1 : words[c] # EXIT}
             B == {b \in 0 .. n - 1 : b >= entry /\ \A c \in entry .. b - 1 : w[c] # EXIT}
  <1>6. /\ Fetched(words, off + entry) = {<<a - (off + entry), words[a]>> : a \in A}
        /\ Fetched(w, entry) = {<<a - entry, w[a]>> : a \in B}
    BY <1>1 DEF Fetched
  <1>7. /\ \A b \in A : b - off \in B /\ b - (off + entry) = b - off - entry /\ words[b] = w[b - off]
        /\ \A b \in B : off + b \in A /\ (off + b) - (off + entry) = b - entry /\ words[off + b] = w[b]
    <2>1. ASSUME NEW b \in A
          PROVE  b - off \in B /\ b - (off + entry) = b - off - entry /\ words[b] = w[b - off]
      <3>1. b - off \in B
        BY <1>4
      <3>2. off + (b - off) = b /\ b - off \in 0 .. n - 1
        BY <3>1
      <3> QED
        BY <1>1, <1>3, <3>1, <3>2
    <2>2. ASSUME NEW b \in B
          PROVE  off + b \in A /\ (off + b) - (off + entry) = b - entry /\ words[off + b] = w[b]
      <3>1. off + b \in A
        BY <1>5
      <3> QED
        BY <1>1, <1>3, <3>1
    <2> QED
      BY <2>1, <2>2
  <1> HIDE DEF A, B
  <1>8. {<<a - (off + entry), words[a]>> : a \in A} = {<<a - entry, w[a]>> : a \in B}
    <2>1. ASSUME NEW b \in A PROVE <<b - (off + entry), words[b]>> \in {<<a - entry, w[a]>> : a \in B}
      BY <1>7
    <2>2. ASSUME NEW b \in B PROVE <<b - entry, w[b]>> \in {<<a - (off + entry), words[a]>> : a \in A}
      <3> DEFINE e == off + b
      <3>1. e \in A /\ e - (off + entry) = b - entry /\ words[e] = w[b]
        BY <1>7
      <3> HIDE DEF e
      <3> QED
        BY <3>1
    <2> QED
      BY <2>1, <2>2
  <1> QED
    BY <1>6, <1>8 DEF w, entry

\* Two sequences joined.
LEMMA Joined ==
  ASSUME NEW S, NEW a \in Seq(S), NEW b \in Seq(S)
  PROVE  /\ a \o b \in Seq(S) /\ Len(a \o b) = Len(a) + Len(b) /\ Len(a) \in Nat /\ Len(b) \in Nat
         /\ \A i \in 1 .. Len(a) : (a \o b)[i] = a[i]
         /\ \A i \in 1 .. Len(b) : (a \o b)[Len(a) + i] = b[i]
  <1>1. Len(a) \in Nat /\ Len(b) \in Nat
    OBVIOUS
  <1>2. /\ a \o b \in Seq(S) /\ Len(a \o b) = Len(a) + Len(b)
        /\ \A i \in 1 .. Len(a) + Len(b) : (a \o b)[i] = IF i <= Len(a) THEN a[i] ELSE b[i - Len(a)]
    BY ConcatProperties
  <1> DEFINE c == a \o b
  <1> HIDE DEF c
  <1>3. \A i \in 1 .. Len(a) : c[i] = a[i]
    BY <1>1, <1>2 DEF c
  <1>4. \A i \in 1 .. Len(b) : c[Len(a) + i] = b[i]
    <2> TAKE i \in 1 .. Len(b)
    <2>1. Len(a) + i \in 1 .. Len(a) + Len(b) /\ ~(Len(a) + i <= Len(a)) /\ Len(a) + i - Len(a) = i
      BY <1>1
    <2> QED
      BY <1>2, <2>1 DEF c
  <1> QED
    BY <1>1, <1>2, <1>3, <1>4 DEF c

\* What the assembler writes.
LEMMA WrittenFile ==
  ASSUME NEW p \in Program, NEW f, f = write_gpubin(p)
  PROVE  /\ Len(f) = 8 + Len(p.code) + Len(p.kconst)
         /\ f[1] = Magic /\ f[3] = Len(p.code) /\ f[4] = Len(p.kconst) /\ f[5] = p.entry
         /\ f \in Seq(Int \cup {Magic}) /\ Len(p.code) \in Nat /\ Len(p.kconst) \in Nat
         /\ \A i \in 1 .. Len(p.code) : f[8 + i] = p.code[i]
         /\ \A i \in 1 .. Len(p.kconst) : f[8 + Len(p.code) + i] = p.kconst[i]
  <1> DEFINE S == Int \cup {Magic}
             h == Header(p.code, p.kconst, p.entry)
             m == Len(p.code)
             n == Len(p.kconst)
  <1>1. /\ p.code \in Seq(S) /\ p.kconst \in Seq(S) /\ p.entry \in Nat
        /\ m \in Nat /\ n \in Nat
    BY DEF Program
  <1>2. /\ h \in Seq(S) /\ Len(h) = 8 /\ h[1] = Magic /\ h[3] = m /\ h[4] = n
        /\ h[5] = p.entry
    <2>1. h = <<Magic, 1, m, n, p.entry, 16, 0, 0>>
      BY DEF Header
    <2>2. {Magic, 1, m, n, p.entry, 16, 0} \subseteq S
      BY <1>1
    <2> HIDE DEF h, S
    <2> QED
      BY <2>1, <2>2
  <1> DEFINE c == p.code
             d == p.kconst
  <1>7. /\ c \in Seq(S) /\ d \in Seq(S) /\ m = Len(c) /\ n = Len(d)
    BY <1>1
  <1> HIDE DEF h, S, m, n, c, d
  <1> DEFINE g == h \o c
  <1>3. write_gpubin(p) = g \o d
    BY DEF write_gpubin, h, m, n, c, d
  <1>4. /\ g \in Seq(S) /\ Len(g) = 8 + m /\ \A i \in 1 .. 8 : g[i] = h[i]
        /\ \A i \in 1 .. m : g[8 + i] = c[i]
    <2>1. h \in Seq(S) /\ c \in Seq(S)
      BY <1>2, <1>7
    <2>2. /\ g \in Seq(S) /\ Len(g) = Len(h) + Len(c)
          /\ \A i \in 1 .. Len(h) : g[i] = h[i]
          /\ \A i \in 1 .. Len(c) : g[Len(h) + i] = c[i]
      BY <2>1, Joined
    <2> QED
      BY <1>2, <1>7, <2>2, Zenon
  <1> HIDE DEF g
  <1>5. /\ f \in Seq(S) /\ Len(f) = 8 + m + n
        /\ \A i \in 1 .. 8 + m : f[i] = g[i]
        /\ \A i \in 1 .. n : f[8 + m + i] = d[i]
    <2>1. g \in Seq(S) /\ d \in Seq(S) /\ f = g \o d
      BY <1>3, <1>4, <1>7
    <2>2. /\ f \in Seq(S) /\ Len(f) = Len(g) + Len(d)
          /\ \A i \in 1 .. Len(g) : f[i] = g[i]
          /\ \A i \in 1 .. Len(d) : f[Len(g) + i] = d[i]
      BY <2>1, Joined
    <2> QED
      BY <1>4, <1>7, <2>2, Zenon
  <1>6. f[1] = Magic /\ f[3] = m /\ f[4] = n /\ f[5] = p.entry
    <2>1. \A i \in 1 .. 8 : i \in 1 .. 8 + m
      BY <1>1
    <2>2. \A i \in 1 .. 8 : f[i] = h[i]
      BY <1>4, <1>5, <2>1
    <2> QED
      BY <1>2, <2>2
  <1>8. \A i \in 1 .. m : f[8 + i] = c[i]
    <2> TAKE i \in 1 .. m
    <2>1. 8 + i \in 1 .. 8 + m
      BY <1>1
    <2> QED
      BY <1>4, <1>5, <2>1
  <1> QED
    BY <1>1, <1>5, <1>6, <1>8, Zenon DEF m, n, S, c, d

\* What the loader makes of it: all of the program, or nothing if the file was cut.
AsWritten(p, f) ==
  LET b == load_gpubin(f)
  IN  /\ b.ok \in BOOLEAN
      /\ b.ok <=> f = write_gpubin(p)
      /\ b.ok => b.entry = p.entry /\ Len(b.code) = Len(p.code)
                 /\ \A i \in 1 .. Len(p.code) : b.code[i] = p.code[i]
      /\ ~b.ok => b = Failed

\* A file of the assembler, whole or cut anywhere (write_gpubin, load_gpubin), is loaded with
\* its code and entry if it is whole, and is refused if it is not.
THEOREM FileLoads ==
  ASSUME NEW p \in Program, NEW k \in 0 .. Len(write_gpubin(p))
  PROVE  AsWritten(p, SubSeq(write_gpubin(p), 1, k))
  <1> DEFINE f == SubSeq(write_gpubin(p), 1, k)
             b == load_gpubin(f)
  <1> DEFINE w == write_gpubin(p)
             S == Int \cup {Magic}
             m == Len(p.code)
             n == Len(p.kconst)
  <1>1. /\ Len(w) = 8 + m + n
        /\ w[1] = Magic /\ w[3] = m /\ w[4] = n /\ w[5] = p.entry
        /\ w \in Seq(S) /\ m \in Nat /\ n \in Nat
        /\ \A i \in 1 .. m : w[8 + i] = p.code[i]
    BY WrittenFile, Zenon
  <1>2. k \in 0 .. Len(w) /\ f = SubSeq(w, 1, k) /\ b = load_gpubin(f)
    OBVIOUS
  <1> HIDE DEF w, S, m, n, f, b
  <1>3. Len(w) \in Nat /\ \A i \in 1 .. Len(w) : w[i] \in S
    BY <1>1
  <1>4. /\ f \in Seq(S) /\ Len(f) = k /\ \A i \in 1 .. k : f[i] = w[i]
    <2>1. k \in Nat /\ 1 \in Int /\ k \in Int /\ \A i \in 1 .. k : w[i] \in S
      BY <1>2, <1>3
    <2>2. /\ f \in Seq(S) /\ Len(f) = IF 1 <= k THEN k - 1 + 1 ELSE 0
          /\ \A i \in 1 .. k - 1 + 1 : f[i] = w[1 + i - 1]
      BY <1>2, <2>1, SubSeqProperties
    <2>3. k - 1 + 1 = k /\ (~(1 <= k) => k = 0) /\ \A i \in 1 .. k : 1 + i - 1 = i
      BY <2>1
    <2> QED
      BY <2>2, <2>3
  <1>5. CASE k # Len(w)
    <2>1. k \in Nat /\ k < 8 + m + n
      BY <1>1, <1>2, <1>3, <1>5
    <2>2. f # w
      BY <1>4, <1>5
    <2>3. ~(Len(f) < 8) => Len(f) < 8 + f[3] + f[4]
      <3> SUFFICES ASSUME ~(Len(f) < 8) PROVE Len(f) < 8 + f[3] + f[4]
        OBVIOUS
      <3>1. 3 \in 1 .. k /\ 4 \in 1 .. k
        BY <1>4, <2>1
      <3>2. f[3] = m /\ f[4] = n
        BY <1>1, <1>4, <3>1
      <3> QED
        BY <1>4, <2>1, <3>2
    <2>4. b = Failed
      BY <1>2, <2>3, Zenon DEF load_gpubin, HeaderWords
    <2>5. b.ok = FALSE
      BY <2>4 DEF Failed
    <2> QED
      BY <2>2, <2>4, <2>5, Zenon DEF AsWritten, f, b, w
  <1>6. CASE k = Len(w)
    <2>1. f = w
      <3>1. w \in Seq(S) /\ f \in Seq(S) /\ Len(f) = Len(w)
        BY <1>1, <1>4, <1>6
      <3>2. \A i \in 1 .. Len(f) : f[i] = w[i]
        BY <1>4
      <3> QED
        BY <3>1, <3>2, SeqEqual
    <2> DEFINE e == 8 + m
               code == SubSeq(w, 9, e)
    <2>2. ~(Len(w) < 8) /\ ~(w[1] # Magic) /\ ~(Len(w) < 8 + w[3] + w[4])
      <3>1. Len(w) = 8 + w[3] + w[4] /\ w[3] \in Nat /\ w[4] \in Nat /\ w[1] = Magic
        BY <1>1
      <3> QED
        BY <3>1
    <2>3. b = [ok |-> TRUE, code |-> Body(w, w[3], 0), kconst |-> Body(w, w[4], w[3]), entry |-> w[5]]
      <3>1. b = load_gpubin(w)
        BY <1>2, <2>1
      <3> QED
        BY <2>2, <3>1, Zenon DEF load_gpubin, HeaderWords
    <2>4. Body(w, w[3], 0) = code
      <3>1. w[3] = m /\ 8 + 0 + 1 = 9 /\ 8 + 0 + m = e
        BY <1>1
      <3> QED
        BY <3>1, Zenon DEF Body, HeaderWords
    <2>5. Len(code) = m /\ \A i \in 1 .. m : code[i] = w[8 + i]
      <3>1. 9 \in Int /\ e \in Int /\ \A i \in 9 .. e : i \in 1 .. Len(w)
        BY <1>1
      <3>2. \A i \in 9 .. e : w[i] \in S
        BY <1>3, <3>1
      <3>3. e - 9 + 1 = m /\ (9 <= e <=> m # 0)
            /\ \A i \in 1 .. m : 9 + i - 1 = 8 + i
        BY <1>1
      <3> HIDE DEF e
      <3>4. /\ Len(code) = IF 9 <= e THEN e - 9 + 1 ELSE 0
            /\ \A i \in 1 .. e - 9 + 1 : code[i] = w[9 + i - 1]
        BY <3>1, <3>2, SubSeqProperties
      <3> HIDE DEF code
      <3>5. Len(code) = m
        BY <1>1, <3>3, <3>4
      <3>6. \A i \in 1 .. m : code[i] = w[8 + i]
        BY <3>3, <3>4
      <3> QED
        BY <3>5, <3>6
    <2> HIDE DEF e, code
    <2>6. b.ok = TRUE /\ b.entry = p.entry /\ b.code = code
      BY <1>1, <2>3, <2>4
    <2>7. \A i \in 1 .. m : b.code[i] = p.code[i]
      BY <1>1, <2>5, <2>6
    <2> QED
      BY <2>1, <2>5, <2>6, <2>7, Zenon DEF AsWritten, f, b, w, m
  <1> QED
    BY <1>5, <1>6

-----------------------------------------------------------------------------
\* The golden model, call by call and thread by thread.

Runs(f, calls, start, n) ==
  f = [k \in 0 .. n |-> IF k = 0 THEN start ELSE GoldenCall(f[k - 1], calls[k])]

\* Calls have a run of the golden model.
LEMMA RunsExist ==
  ASSUME NEW calls, NEW start
  PROVE  \A n \in Nat : \E f : Runs(f, calls, start, n)
  <1> DEFINE T == {n \in Nat : \E f : Runs(f, calls, start, n)}
  <1>1. 0 \in T
    <2>1. Runs([k \in 0 .. 0 |-> start], calls, start, 0)
      BY DEF Runs
    <2> QED
      BY <2>1
  <1>2. ASSUME NEW n \in T PROVE n + 1 \in T
    <2>1. n \in Nat
      OBVIOUS
    <2>2. PICK f : Runs(f, calls, start, n)
      OBVIOUS
    <2> DEFINE g == [k \in 0 .. n + 1 |-> IF k <= n THEN f[k] ELSE GoldenCall(f[n], calls[n + 1])]
    <2>3. \A k \in 0 .. n : f[k] = IF k = 0 THEN start ELSE GoldenCall(f[k - 1], calls[k])
      BY <2>1, <2>2 DEF Runs
    <2>4. ASSUME NEW k \in 0 .. n + 1
          PROVE  g[k] = IF k = 0 THEN start ELSE GoldenCall(g[k - 1], calls[k])
      <3>1. CASE k = 0
        BY <2>1, <2>3, <3>1
      <3>2. CASE k \in 1 .. n
        BY <2>1, <2>3, <3>2
      <3>3. CASE k = n + 1
        BY <2>1, <3>3
      <3> QED
        BY <2>1, <3>1, <3>2, <3>3
    <2>5. g = [k \in 0 .. n + 1 |-> g[k]]
      OBVIOUS
    <2> HIDE DEF g
    <2>6. Runs(g, calls, start, n + 1)
      BY <2>4, <2>5 DEF Runs
    <2> QED
      BY <2>1, <2>6
  <1> HIDE DEF T
  <1>3. T = Nat
    <2>1. T \in SUBSET Nat
      BY DEF T
    <2> QED
      BY <1>1, <1>2, <2>1, Induction
  <1> QED
    BY <1>3 DEF T

\* And one only.
LEMMA RunsAgree ==
  ASSUME NEW calls, NEW start, NEW f, NEW g, NEW n \in Nat, NEW m \in Nat,
         Runs(f, calls, start, n), Runs(g, calls, start, m)
  PROVE  \A k \in Nat : k <= n /\ k <= m => f[k] = g[k]
  <1> DEFINE T == {k \in Nat : k <= n /\ k <= m => f[k] = g[k]}
  <1>0. /\ \A k \in 0 .. n : f[k] = IF k = 0 THEN start ELSE GoldenCall(f[k - 1], calls[k])
        /\ \A k \in 0 .. m : g[k] = IF k = 0 THEN start ELSE GoldenCall(g[k - 1], calls[k])
    BY DEF Runs
  <1>1. 0 \in T
    BY <1>0
  <1>2. ASSUME NEW k \in T PROVE k + 1 \in T
    BY <1>0
  <1> HIDE DEF T
  <1>3. T = Nat
    <2>1. T \in SUBSET Nat
      BY DEF T
    <2> QED
      BY <1>1, <1>2, <2>1, Induction
  <1> QED
    BY <1>3 DEF T

\* The words of a block are its own.
LEMMA ProductsOrdered ==
  ASSUME NEW b \in Nat, NEW c \in Nat, NEW n \in Nat, b < c
  PROVE  b * n + n <= c * n /\ b * n \in Nat /\ c * n \in Nat
  <1>1. PICK d \in Nat : c = b + 1 + d
    <2>1. c - b - 1 \in Nat /\ c = b + 1 + (c - b - 1)
      OBVIOUS
    <2> QED
      BY <2>1
  <1>2. c * n = b * n + n + d * n
    BY <1>1
  <1>3. b * n \in Nat /\ d * n \in Nat /\ c * n \in Nat
    OBVIOUS
  <1> QED
    BY <1>2, <1>3

\* A word belongs to one block.
LEMMA WordOfOneBlock ==
  ASSUME NEW n \in Nat, NEW b \in Nat, NEW c \in Nat, NEW t \in 0 .. n - 1, NEW u \in 0 .. n - 1,
         b * n + t = c * n + u
  PROVE  b = c
  <1>0. b * n \in Nat /\ c * n \in Nat
    OBVIOUS
  <1>1. ~(b < c)
    <2> SUFFICES ASSUME b < c PROVE FALSE
      OBVIOUS
    <2>1. b * n + n <= c * n
      BY ProductsOrdered
    <2> QED
      BY <1>0, <2>1
  <1>2. ~(c < b)
    <2> SUFFICES ASSUME c < b PROVE FALSE
      OBVIOUS
    <2>1. c * n + n <= b * n
      BY ProductsOrdered
    <2> QED
      BY <1>0, <2>1
  <1> QED
    BY <1>1, <1>2

BlockWords(m, n) == {b * n + t : b \in 0 .. m - 1, t \in 0 .. n - 1}

\* The words of all blocks are those of the grid's threads.
LEMMA WordsOfAllBlocks ==
  ASSUME NEW n \in Nat, NEW m \in Nat, NEW a \in Nat
  PROVE  a \in BlockWords(m, n) <=> a < m * n
  <1>0. m * n \in Nat
    OBVIOUS
  <1>1. ASSUME NEW b \in 0 .. m - 1, NEW t \in 0 .. n - 1, a = b * n + t
        PROVE  a < m * n
    <2>1. b * n + n <= m * n /\ b * n \in Nat
      BY ProductsOrdered
    <2> QED
      BY <1>0, <1>1, <2>1
  <1>2. ASSUME a < m * n
        PROVE  \E b \in 0 .. m - 1, t \in 0 .. n - 1 : a = b * n + t
    <2>1. n # 0
      BY <1>2
    <2> DEFINE b == a \div n
               t == a % n
    <2>2. b \in Nat /\ t \in 0 .. n - 1 /\ a = n * b + t
      BY <2>1
    <2> HIDE DEF b, t
    <2>3. n * b = b * n
      BY <2>2
    <2>4. b < m
      <3> SUFFICES ASSUME ~(b < m) PROVE FALSE
        OBVIOUS
      <3>1. m * n <= b * n /\ b * n \in Nat
        <4>1. CASE m = b
          BY <2>2, <4>1
        <4>2. CASE m < b
          <5>1. m * n + n <= b * n /\ b * n \in Nat
            BY <2>2, <4>2, ProductsOrdered
          <5> QED
            BY <1>0, <5>1
        <4> QED
          BY <2>2, <4>1, <4>2
      <3> QED
        BY <1>0, <1>2, <2>2, <2>3, <3>1
    <2> QED
      BY <2>2, <2>3, <2>4
  <1> QED
    BY <1>1, <1>2 DEF BlockWords

-----------------------------------------------------------------------------
\* The golden model's run: each thread's word once.
RunOf(f, mem, n, words, entry, const, nx) ==
  f = [k \in 0 .. n |-> IF k = 0 THEN mem
                        ELSE [f[k - 1] EXCEPT ![k - 1] = Kernel(words, entry, const, nx, @)]]

\* The recursion of run works through the threads one at a time.
LEMMA RunMemory ==
  ASSUME NEW D, NEW mem, mem = [a \in D |-> mem[a]], D \subseteq Nat,
         NEW n \in Nat, NEW words, NEW entry, NEW const, NEW nx
  PROVE  /\ \E f : RunOf(f, mem, n, words, entry, const, nx)
         /\ \A f : RunOf(f, mem, n, words, entry, const, nx) =>
              f[n] = [a \in D |-> IF a < n THEN Kernel(words, entry, const, nx, mem[a]) ELSE mem[a]]
  <1> DEFINE K(a) == Kernel(words, entry, const, nx, a)
             done(k) == [a \in D |-> IF a < k THEN K(mem[a]) ELSE mem[a]]
             step(g, k) == [g EXCEPT ![k - 1] = K(@)]
  <1>1. done(0) = mem
    <2>1. \A a \in D : ~(a < 0)
      OBVIOUS
    <2> QED
      BY <2>1, Zenon
  <1>2. ASSUME NEW k \in Nat \ {0} PROVE step(done(k - 1), k) = done(k)
    <2>1. \A a \in D : /\ a = k - 1 => a < k /\ ~(a < k - 1)
                       /\ a # k - 1 => (a < k <=> a < k - 1)
      OBVIOUS
    <2> DEFINE g == done(k - 1)
    <2>2. DOMAIN g = D /\ \A a \in D : g[a] = IF a < k - 1 THEN K(mem[a]) ELSE mem[a]
      BY Zenon
    <2>3. step(g, k) = [a \in D |-> IF a = k - 1 THEN K(g[a]) ELSE g[a]]
      BY <2>2
    <2> HIDE DEF g, K
    <2>4. \A a \in D : (IF a = k - 1 THEN K(g[a]) ELSE g[a]) = IF a < k THEN K(mem[a]) ELSE mem[a]
      BY <2>1, <2>2
    <2> QED
      BY <2>3, <2>4, Zenon DEF g
  <1> HIDE DEF K, done, step
  <1>3. \E f : RunOf(f, mem, n, words, entry, const, nx)
    <2> DEFINE f == [k \in 0 .. n |-> done(k)]
    <2>1. ASSUME NEW k \in 0 .. n PROVE f[k] = IF k = 0 THEN mem ELSE step(f[k - 1], k)
      <3>1. CASE k = 0
        BY <1>1, <3>1
      <3>2. CASE k # 0
        <4>1. k \in Nat \ {0} /\ k - 1 \in 0 .. n
          BY <3>2
        <4>2. f[k - 1] = done(k - 1) /\ f[k] = done(k)
          BY <4>1
        <4> QED
          BY <1>2, <3>2, <4>1, <4>2, Zenon
      <3> QED
        BY <3>1, <3>2
    <2>2. f = [k \in 0 .. n |-> f[k]]
      OBVIOUS
    <2> HIDE DEF f
    <2>3. f = [k \in 0 .. n |-> IF k = 0 THEN mem ELSE step(f[k - 1], k)]
      BY <2>1, <2>2, Zenon
    <2> QED
      BY <2>3, Zenon DEF RunOf, step, K
  <1>4. ASSUME NEW f, RunOf(f, mem, n, words, entry, const, nx)
        PROVE  f[n] = done(n)
    <2>1. \A k \in 0 .. n : f[k] = IF k = 0 THEN mem ELSE step(f[k - 1], k)
      BY <1>4, Zenon DEF RunOf, step, K
    <2> DEFINE T == {k \in Nat : k <= n => f[k] = done(k)}
    <2>2. 0 \in T
      BY <1>1, <2>1
    <2>3. ASSUME NEW k \in T PROVE k + 1 \in T
      <3>1. /\ k \in Nat /\ k + 1 \in Nat \ {0} /\ k + 1 - 1 = k
            /\ k + 1 <= n => k <= n /\ k + 1 \in 0 .. n
        OBVIOUS
      <3>2. k + 1 <= n => f[k + 1] = step(f[k], k + 1) /\ f[k] = done(k)
        BY <2>1, <3>1
      <3>3. step(done(k), k + 1) = done(k + 1)
        BY <1>2, <3>1
      <3> QED
        BY <3>1, <3>2, <3>3
    <2> HIDE DEF T
    <2>4. T = Nat
      <3>1. T \in SUBSET Nat
        BY DEF T
      <3> QED
        BY <2>2, <2>3, <3>1, Induction
    <2> QED
      BY <2>4 DEF T
  <1> QED
    BY <1>3, <1>4, Zenon DEF done, K

Ran(g, d, D) ==
  LET p    == g.programs[d.prog]
      bank == Seeded(g.bank, p.kconst)
  IN  [g EXCEPT !.bank = bank, !.mem =
        [a \in D |-> IF a < d.nx * d.tpb THEN Kernel(Words(p), p.entry, LDC(bank, 0), d.nx, g.mem[a])
                     ELSE g.mem[a]]]

\* Iss::run applies the kernel to the word of each of the grid's threads once, and to no other:
\* the order it takes them in does not matter.
THEOREM RunByThread ==
  ASSUME NEW D, NEW g, g.mem = [a \in D |-> g.mem[a]], D \subseteq Nat,
         NEW d, d.nx * d.tpb \in Nat
  PROVE  run(g, d) = Ran(g, d, D)
  <1> DEFINE p == g.programs[d.prog]
             bank == Seeded(g.bank, p.kconst)
             n == d.nx * d.tpb
             f == CHOOSE f : RunOf(f, g.mem, n, Words(p), p.entry, LDC(bank, 0), d.nx)
  <1>1. run(g, d) = [g EXCEPT !.bank = bank, !.mem = f[n]]
    BY Zenon DEF run, RunOf
  <1>2. RunOf(f, g.mem, n, Words(p), p.entry, LDC(bank, 0), d.nx)
    <2>1. n \in Nat
      OBVIOUS
    <2>2. \E h : RunOf(h, g.mem, n, Words(p), p.entry, LDC(bank, 0), d.nx)
      <3> HIDE DEF n, f, bank, p
      <3> QED
        BY <2>1, RunMemory
    <2> QED
      BY <2>2, Zenon
  <1>3. f[n] = [a \in D |-> IF a < n THEN Kernel(Words(p), p.entry, LDC(bank, 0), d.nx, g.mem[a])
                            ELSE g.mem[a]]
    <2>1. n \in Nat
      OBVIOUS
    <2> HIDE DEF f, n, bank, p
    <2> QED
      BY <1>2, <2>1, RunMemory
  <1> QED
    BY <1>1, <1>3, Zenon DEF Ran

\* The memory's words.
Gmem  == 0 .. GmemWords - 1
Begin == [programs |-> <<>>, bank |-> [i \in {} |-> 0], reads |-> <<>>, mem |-> [a \in Gmem |-> 0]]

\* The golden model before the call that the host is in.
After(calls, n) == (CHOOSE f : Runs(f, calls, Begin, n))[n]
Old == After(session.calls, call - 1)

\* One call more.
LEMMA AfterCalls ==
  ASSUME NEW calls, NEW n \in Nat
  PROVE  /\ After(calls, 0) = Begin
         /\ After(calls, n + 1) = GoldenCall(After(calls, n), calls[n + 1])
  <1> DEFINE F(k) == CHOOSE f : Runs(f, calls, Begin, k)
  <1>1. \A k \in Nat : Runs(F(k), calls, Begin, k)
    BY RunsExist
  <1>2. \A k \in Nat : After(calls, k) = F(k)[k]
    BY Zenon DEF After
  <1> HIDE DEF F
  <1>3. After(calls, 0) = Begin
    BY <1>1, <1>2 DEF Runs
  <1>4. F(n)[n] = F(n + 1)[n]
    <2>1. /\ Runs(F(n), calls, Begin, n) /\ Runs(F(n + 1), calls, Begin, n + 1)
          /\ n + 1 \in Nat /\ n <= n + 1
      BY <1>1
    <2> QED
      BY <2>1, RunsAgree
  <1>5. F(n + 1)[n + 1] = GoldenCall(F(n + 1)[n], calls[n + 1])
    <2> DEFINE g == F(n + 1)
    <2>0. n + 1 \in Nat
      OBVIOUS
    <2>1. Runs(g, calls, Begin, n + 1)
      BY <1>1, <2>0
    <2> HIDE DEF g
    <2>2. g[n + 1] = GoldenCall(g[n], calls[n + 1])
      BY <2>1 DEF Runs
    <2> QED
      BY <2>2 DEF g
  <1> QED
    BY <1>2, <1>3, <1>4, <1>5

\* It is the state that the property speaks of.
LEMMA GoldenIsAfter ==
  ASSUME DOMAIN gmem = Gmem, NEW n \in Nat
  PROVE  Golden(n) = After(session.calls, n)
  <1>1. Golden(n) = (CHOOSE f : Runs(f, session.calls, Begin, n))[n]
    BY Zenon DEF Golden, Runs, Begin
  <1> QED
    BY <1>1, Zenon DEF After

\* What each call does to the golden model's state.
State(P, B, R, M) == [programs |-> P, bank |-> B, reads |-> R, mem |-> M]

CallGoes(g, c, P, B, R, M) ==
  /\ c.op = "load"  => GoldenCall(g, c) = State(Append(P, c.prog), B, R, M)
  /\ c.op = "const" => GoldenCall(g, c) = State(P, set_const(B, c.idx, c.val), R, M)
  /\ c.op = "write" => GoldenCall(g, c) = State(P, B, R, [M EXCEPT ![c.byte \div 4] = c.val])
  /\ c.op = "read"  => GoldenCall(g, c) = State(P, B, Append(R, M[c.byte \div 4]), M)
  /\ c.op = "dispatch" => GoldenCall(g, c) = run(g, c)
  /\ \A b, m : [g EXCEPT !.bank = b, !.mem = m] = State(P, b, R, m)

\* Each call changes the field it is about.
LEMMA CallFields ==
  ASSUME NEW P, NEW B, NEW R, NEW M, NEW c
  PROVE  CallGoes(State(P, B, R, M), c, P, B, R, M)
  <1> DEFINE g == State(P, B, R, M)
  <1>1. g.programs = P /\ g.bank = B /\ g.reads = R /\ g.mem = M
    BY DEF State
  <1>2. c.op = "load"  => GoldenCall(g, c) = [g EXCEPT !.programs = Append(P, c.prog)]
    BY <1>1 DEF GoldenCall
  <1>3. c.op = "const" => GoldenCall(g, c) = [g EXCEPT !.bank = set_const(B, c.idx, c.val)]
    BY <1>1 DEF GoldenCall
  <1>4. c.op = "write" => GoldenCall(g, c) = [g EXCEPT !.mem = [M EXCEPT ![c.byte \div 4] = c.val]]
    BY <1>1 DEF GoldenCall
  <1>5. c.op = "read"  => GoldenCall(g, c) = [g EXCEPT !.reads = Append(R, M[c.byte \div 4])]
    BY <1>1 DEF GoldenCall
  <1>6. c.op = "dispatch" => GoldenCall(g, c) = run(g, c)
    BY DEF GoldenCall
  <1>7. ASSUME NEW v
        PROVE  /\ [g EXCEPT !.programs = v] = State(v, B, R, M)
               /\ [g EXCEPT !.bank = v] = State(P, v, R, M)
               /\ [g EXCEPT !.mem = v] = State(P, B, R, v)
               /\ [g EXCEPT !.reads = v] = State(P, B, v, M)
    BY SMT DEF State
  <1>8. ASSUME NEW b, NEW m
        PROVE  [g EXCEPT !.bank = b, !.mem = m] = State(P, b, R, m)
    <2> DEFINE h == [g EXCEPT !.bank = b]
    <2>1. h = State(P, b, R, M) /\ [g EXCEPT !.bank = b, !.mem = m] = [h EXCEPT !.mem = m]
      BY <1>7, Zenon
    <2> HIDE DEF h
    <2>2. [h EXCEPT !.mem = m] = State(P, b, R, m)
      BY <2>1 DEF State
    <2> QED
      BY <2>1, <2>2
  <1> QED
    BY <1>2, <1>3, <1>4, <1>5, <1>6, <1>7, <1>8, Zenon DEF CallGoes

-----------------------------------------------------------------------------
\* The blocks of a grid and their words.

\* The units at work, each on a block of its own.
Active == running \cup cu_start
BidxInv ==
  /\ \A c \in Active : cu_bidx[c] \in 0 .. next_bidx - 1
  /\ \A c, e \in Active : cu_bidx[c] = cu_bidx[e] => c = e

\* The blocks that have been handed out and have ended, and their words.
Over == {b \in 0 .. next_bidx - 1 : \A c \in Active : cu_bidx[c] # b}
WordsOf(blocks, n) == {b * n + t : b \in blocks, t \in Threads(n)}
OverWords == WordsOf(Over, desc.tpb)

\* On a clock of a busy dispatcher the blocks of the units that end are over, and no other.
LEMMA UnitsMove ==
  ASSUME IInv, BidxInv, NEW over \in SUBSET running, NEW rep, NEW l2rep, Tick(over, rep, l2rep), Busy
  PROVE  /\ BidxInv'
         /\ Over' = Over \cup {cu_bidx[c] : c \in over}
         /\ \A c \in over : cu_bidx[c] \in Nat /\ cu_bidx[c] \notin Over
         /\ Over \subseteq Nat
  <1>0. /\ cu_start \cap running = {} /\ running \subseteq CUs /\ cu_start \subseteq CUs
        /\ next_bidx \in Nat
        /\ cu_bidx \in [CUs -> Nat]
    BY DEF IInv, UnitsInv, TypeOK
  <1>1. running' = (running \ over) \cup cu_start
    <2>1. Units(over, rep, l2rep) /\ Started = cu_start
      BY <1>0, Zenon DEF Tick, IInv, UnitsInv, Started
    <2> QED
      BY <2>1, Zenon DEF Units
  <1> DEFINE A == Active \ over
             new == {cu_bidx[c] : c \in over}
             done == {b \in 0 .. next_bidx - 1 : \A c \in A : cu_bidx[c] # b}
  <1>2. /\ running' = A /\ over \subseteq Active /\ A \subseteq CUs
    BY <1>0, <1>1 DEF Active
  <1>3. \A c \in over : cu_bidx[c] \in Nat /\ cu_bidx[c] \notin Over
    BY <1>0, <1>2 DEF BidxInv, Over
  <1>4. done = Over \cup new
    <2>1. ASSUME NEW b \in done PROVE b \in Over \cup new
      <3>1. b \in 0 .. next_bidx - 1 /\ \A c \in A : cu_bidx[c] # b
        OBVIOUS
      <3>2. CASE \E c \in over : cu_bidx[c] = b
        BY <3>2
      <3>3. CASE ~ \E c \in over : cu_bidx[c] = b
        <4>1. \A c \in Active : cu_bidx[c] # b
          BY <3>1, <3>3
        <4> QED
          BY <3>1, <4>1 DEF Over
      <3> QED
        BY <3>2, <3>3
    <2>2. ASSUME NEW b \in Over PROVE b \in done
      BY DEF Over
    <2>3. ASSUME NEW c \in over PROVE cu_bidx[c] \in done
      <3>1. cu_bidx[c] \in 0 .. next_bidx - 1
        BY <1>2 DEF BidxInv
      <3>2. \A e \in A : cu_bidx[e] # cu_bidx[c]
        BY <1>2 DEF BidxInv
      <3> QED
        BY <3>1, <3>2
    <2> QED
      BY <2>1, <2>2, <2>3
  <1>5. Over \subseteq Nat
    BY DEF Over
  <1>6. CASE Dispatch
    <2> DEFINE c == CHOOSE c \in FreeCUs : \A e \in FreeCUs : c <= e
    <2>1. /\ cu_start' = {c} /\ cu_bidx' = [cu_bidx EXCEPT ![c] = next_bidx]
          /\ next_bidx' = next_bidx + 1
      BY <1>6, Zenon DEF Dispatch
    <2>2. c \in CUs /\ c \notin running /\ c \notin cu_start
      BY <1>6, FreeUnit DEF Dispatch
    <2> HIDE DEF c
    <2>3. Active' = A \cup {c} /\ c \notin A
      BY <1>2, <2>1, <2>2 DEF Active
    <2>4. cu_bidx'[c] = next_bidx /\ \A e \in A : cu_bidx'[e] = cu_bidx[e]
      BY <1>0, <1>2, <2>1, <2>2, <2>3
    <2>5. \A e \in A : cu_bidx[e] \in 0 .. next_bidx - 1 /\ \A d \in A : cu_bidx[e] = cu_bidx[d] => e = d
      BY DEF BidxInv
    <2> HIDE DEF A
    <2>6. /\ \A e \in Active' : cu_bidx'[e] \in 0 .. next_bidx' - 1
          /\ \A d, e \in Active' : cu_bidx'[d] = cu_bidx'[e] => d = e
      BY <1>0, <2>1, <2>3, <2>4, <2>5
    <2>7. BidxInv'
      BY <2>6, Zenon DEF BidxInv
    <2>8. ASSUME NEW b
          PROVE  b \in 0 .. next_bidx' - 1 /\ (\A e \in Active' : cu_bidx'[e] # b)
                   <=> b \in 0 .. next_bidx - 1 /\ (\A e \in A : cu_bidx[e] # b)
      BY <1>0, <2>1, <2>3, <2>4
    <2>9. Over' = done
      BY <2>8 DEF Over
    <2> QED
      BY <1>3, <1>4, <1>5, <2>7, <2>9
  <1>7. CASE ~Dispatch
    <2>1. cu_start' = {} /\ next_bidx' = next_bidx /\ cu_bidx' = cu_bidx
      BY <1>7, Zenon DEF Busy, Occupied, Drain, Undrained, FlushPulse, FlushWait, NoPulse
    <2>2. Active' = A
      BY <1>2, <2>1 DEF Active
    <2>3. \A e \in A : cu_bidx[e] \in 0 .. next_bidx - 1 /\ \A d \in A : cu_bidx[e] = cu_bidx[d] => e = d
      BY DEF BidxInv
    <2> HIDE DEF A
    <2>4. BidxInv'
      BY <2>1, <2>2, <2>3, Zenon DEF BidxInv
    <2>5. Over' = done
      BY <2>1, <2>2, Zenon DEF Over
    <2> QED
      BY <1>3, <1>4, <1>5, <2>4, <2>5
  <1> QED
    BY <1>6, <1>7

\* At rest no unit is at work.
LEMMA UnitsAtRest ==
  ASSUME IInv, dstate = "IDLE"
  PROVE  Active = {} /\ BidxInv /\ next_bidx = nx_q
  BY DEF IInv, PhaseInv, Active, BidxInv

\* Every clock keeps the blocks apart.
LEMMA BidxStep ==
  ASSUME IInv, BidxInv, [Next]_vars
  PROVE  BidxInv'
  <1>1. CASE UNCHANGED vars
    BY <1>1 DEF BidxInv, Active, vars, dispatchVars, unitVars
  <1>2. CASE Next
    <2>1. PICK over \in SUBSET running, rep \in SUBSET flushing, l2rep \in BOOLEAN :
            Tick(over, rep, l2rep) /\ (Idle \/ Busy)
      BY <1>2, Zenon DEF Next
    <2>2. CASE Busy
      BY <2>1, <2>2, UnitsMove
    <2>3. CASE Idle
      <3>1. dstate = "IDLE" /\ cu_start' = {}
        BY <2>3 DEF Idle, Wait, NoPulse, Launch
      <3>2. running = {} /\ cu_start = {}
        BY <3>1, UnitsAtRest DEF Active
      <3>3. running' \subseteq running \cup cu_start
        BY <2>1, ClockStep DEF Clock
      <3>4. Active' = {}
        BY <3>1, <3>2, <3>3 DEF Active
      <3> QED
        BY <3>4 DEF BidxInv
    <2> QED
      BY <2>1, <2>2, <2>3
  <1> QED
    BY <1>1, <1>2

\* No two units have the same block, and none has one that was not handed out.
THEOREM BlocksApart == Spec => [](IInv /\ BidxInv)
  <1>1. Init => IInv /\ BidxInv
    <2>1. Init => Active = {}
      BY DEF Init, Active
    <2> QED
      BY <2>1, Initially DEF BidxInv
  <1>2. IInv /\ BidxInv /\ [Next]_vars => (IInv /\ BidxInv)'
    BY BidxStep, Preserved
  <1> QED
    BY <1>1, <1>2, PTL DEF Spec

\* What a reader of the caches would see of a word.
Shown(a) == IF a \in DOMAIN dirty THEN dirty[a] ELSE gmem[a]

\* The memory holds the words, and the caches keep none of them back at rest or once the
\* L2 has reported.
WordsInv ==
  /\ gmem = [a \in Gmem |-> gmem[a]]
  /\ DOMAIN dirty \subseteq Gmem
  /\ dstate = "IDLE" => dirty = NoWrite
  /\ l2_report => dirty = NoWrite

Thread(old) == Kernel(imem, desc.entry, cbank[0], grid_nx, old)

\* The words of two sets of blocks.
LEMMA WordsJoined ==
  ASSUME NEW A, NEW B, NEW n
  PROVE  WordsOf(A \cup B, n) = WordsOf(A, n) \cup WordsOf(B, n)
  BY DEF WordsOf

\* Blocks have no word in common.
LEMMA WordsApart ==
  ASSUME NEW A \in SUBSET Nat, NEW B \in SUBSET Nat, A \cap B = {}, NEW n \in Nat
  PROVE  WordsOf(A, n) \in SUBSET Nat /\ WordsOf(A, n) \cap WordsOf(B, n) = {}
  <1>1. Threads(n) \subseteq 0 .. n - 1
    BY ProperAssumption DEF Threads
  <1>2. ASSUME NEW b \in Nat, NEW t \in Threads(n) PROVE b * n + t \in Nat
    <2>1. t \in 0 .. n - 1
      BY <1>1
    <2>2. \A x, y \in Nat : x * y \in Nat
      OBVIOUS
    <2>3. b * n \in Nat
      BY <2>2
    <2> QED
      BY <2>1, <2>3
  <1>3. ASSUME NEW a \in WordsOf(A, n), a \in WordsOf(B, n) PROVE FALSE
    <2>1. PICK b \in A, t \in Threads(n) : a = b * n + t
      BY <1>3 DEF WordsOf
    <2>2. PICK c \in B, u \in Threads(n) : a = c * n + u
      BY <1>3 DEF WordsOf
    <2>3. b \in Nat /\ c \in Nat /\ t \in 0 .. n - 1 /\ u \in 0 .. n - 1 /\ b * n + t = c * n + u
      BY <1>1, <2>1, <2>2
    <2>4. b = c
      BY <2>3, WordOfOneBlock
    <2> QED
      BY <2>4
  <1> QED
    BY <1>2, <1>3 DEF WordsOf

\* No unit ends, nothing is stored.
LEMMA NothingEnds ==
  ASSUME NEW over, over = {}
  PROVE  Stored(over) = {}
  BY DEF Stored

\* A device at rest does no more than take what the host writes.
LEMMA RestingTick ==
  ASSUME IInv, WordsInv, dstate = "IDLE", NEW launch, NEW put, SimTick(launch, put)
  PROVE  dirty' = NoWrite /\ gmem' = Overlay(gmem, put) /\ ~l2_report'
  <1>0. running = {} /\ dirty = NoWrite
    BY UnitsAtRest DEF Active, WordsInv
  <1>1. PICK over \in SUBSET running, rep \in SUBSET flushing, l2rep \in BOOLEAN,
             lost \in SUBSET (IF DOMAIN put = {} THEN {} ELSE DOMAIN dirty) :
          /\ Tick(over, rep, l2rep)
          /\ dirty' = IF l2rep THEN NoWrite ELSE BlocksEnd(over)
          /\ gmem' = Overlay(Overlay(gmem, IF l2rep THEN [a \in DOMAIN dirty \ lost |-> dirty[a]]
                                           ELSE NoWrite), put)
    BY Zenon DEF SimTick
  <1>2. ~l2_report' /\ l2_report' = l2rep
    <2>1. Clock
      BY <1>1, Zenon DEF Clock
    <2>2. l2_report' = FALSE
      BY <2>1, ClockStep
    <2>3. l2_report' = l2rep
      BY <1>1, Zenon DEF Tick, Units
    <2> QED
      BY <2>2, <2>3
  <1>3. over = {}
    BY <1>0
  <1>4. DOMAIN NoWrite = {}
    BY DEF NoWrite
  <1>5. BlocksEnd(over) = NoWrite
    <2>1. Stored(over) = {}
      BY <1>3, NothingEnds
    <2>2. DOMAIN dirty \cup Stored(over) = {}
      BY <1>0, <1>4, <2>1
    <2>3. DOMAIN BlocksEnd(over) = {} /\ BlocksEnd(over) = [a \in {} |-> BlocksEnd(over)[a]]
      BY <2>2, Zenon DEF BlocksEnd
    <2> QED
      BY <2>3 DEF NoWrite
  <1>6. Overlay(gmem, NoWrite) = gmem
    BY <1>4 DEF Overlay, WordsInv
  <1> QED
    BY <1>1, <1>2, <1>5, <1>6

\* While a grid runs, the blocks that end store their words, which the caches may keep back
\* until the L2 reports.
LEMMA BusyTick ==
  ASSUME IInv, BidxInv, WordsInv, dstate # "IDLE", NEW launch, SimTick(launch, NoWrite),
         desc.tpb \in Nat
  PROVE  /\ WordsInv'
         /\ \E new \in SUBSET Nat :
              /\ OverWords' = OverWords \cup new /\ new \cap OverWords = {}
              /\ \A a \in Gmem : Shown(a)' = IF a \in new THEN Thread(Shown(a)) ELSE Shown(a)
         /\ desc' = desc /\ nx_q' = nx_q /\ (dstate' = "IDLE" => grid_done')
  <1>1. PICK over \in SUBSET running, rep \in SUBSET flushing, l2rep \in BOOLEAN,
             lost \in SUBSET (IF DOMAIN NoWrite = {} THEN {} ELSE DOMAIN dirty) :
          /\ Tick(over, rep, l2rep)
          /\ \/ dstate = "IDLE" /\ launch = {} /\ Wait
             \/ dstate = "IDLE" /\ \E d \in launch : Launch(grid_nx', d)
             \/ Busy
          /\ dirty' = IF l2rep THEN NoWrite ELSE BlocksEnd(over)
          /\ gmem' = Overlay(Overlay(gmem, IF l2rep THEN [a \in DOMAIN dirty \ lost |-> dirty[a]]
                                           ELSE NoWrite), NoWrite)
    BY Zenon DEF SimTick
  <1>2. Busy
    BY <1>1
  <1>3. DOMAIN NoWrite = {} /\ lost = {}
    BY <1>1 DEF NoWrite
  <1>4. l2_report' = l2rep /\ (l2rep => running = {})
    <2>1. Units(over, rep, l2rep) /\ (l2rep => l2_flushing)
      BY <1>1, Zenon DEF Tick
    <2>2. l2_report' = l2rep
      BY <2>1, Zenon DEF Units
    <2>3. l2_flushing => dstate = "FWAIT"
      BY DEF IInv, CacheInv
    <2>4. dstate = "FWAIT" => running = {}
      BY DEF IInv, PhaseInv
    <2> QED
      BY <2>1, <2>2, <2>3, <2>4
  <1>5. desc' = desc /\ nx_q' = nx_q
    BY <1>2, Zenon DEF Busy, Dispatch, Occupied, Drain, Undrained, FlushPulse, FlushWait
  <1>6. dstate' = "IDLE" => grid_done' /\ l2_report /\ dstate = "FWAIT"
    <2>1. CASE FlushWait
      <3>1. /\ grid_done' = (Seen = CUs /\ l2_report) /\ dstate = "FWAIT"
            /\ dstate' = IF grid_done' THEN "IDLE" ELSE "FWAIT"
        BY <2>1, Zenon DEF FlushWait
      <3>2. grid_done' => l2_report
        BY <3>1, Zenon
      <3>3. dstate' = "IDLE" => grid_done'
        BY <3>1
      <3> QED
        BY <3>1, <3>2, <3>3
    <2>2. CASE ~FlushWait
      BY <1>2, <2>2 DEF Busy, Dispatch, Occupied, Drain, Undrained, FlushPulse
    <2> QED
      BY <2>1, <2>2
  <1> DEFINE ended == {cu_bidx[c] : c \in over}
             new == WordsOf(ended, desc.tpb)
  <1>7. /\ Over' = Over \cup ended
        /\ \A c \in over : cu_bidx[c] \in Nat /\ cu_bidx[c] \notin Over
        /\ Over \subseteq Nat
    BY <1>1, <1>2, UnitsMove
  <1>8. ended \subseteq Nat /\ ended \cap Over = {}
    BY <1>7
  <1>9. new \in SUBSET Nat /\ OverWords' = OverWords \cup new /\ new \cap OverWords = {}
    <2> HIDE DEF ended
    <2>0. new \in SUBSET Nat /\ WordsOf(Over, desc.tpb) \cap new = {}
      BY <1>7, <1>8, WordsApart
    <2>1. OverWords' = WordsOf(Over \cup ended, desc.tpb)
      BY <1>5, <1>7, Zenon DEF OverWords
    <2> QED
      BY <2>0, <2>1, WordsJoined DEF OverWords
  <1>14. over = {} => new = {}
    BY DEF WordsOf
  <1> HIDE DEF new
  <1>10. DOMAIN gmem = Gmem
    BY DEF WordsInv
  <1>11. Stored(over) = new \cap Gmem
    BY <1>10 DEF Stored, new, WordsOf
  <1>12. CASE l2rep
    <2>1. over = {}
      BY <1>4, <1>12
    <2>2. new = {}
      BY <1>14, <2>1
    <2>3. dirty' = NoWrite
      BY <1>1, <1>12
    <2>4. gmem' = [a \in Gmem |-> Shown(a)]
      <3>1. DOMAIN dirty \ lost = DOMAIN dirty
        BY <1>3
      <3>2. Overlay(gmem, [a \in DOMAIN dirty \ lost |-> dirty[a]]) = [a \in Gmem |-> Shown(a)]
        BY <1>10, <3>1 DEF Overlay, Shown
      <3> DEFINE f == [a \in Gmem |-> Shown(a)]
      <3>3. Overlay(f, NoWrite) = f
        BY <1>3 DEF Overlay
      <3> HIDE DEF f
      <3>4. gmem' = Overlay(f, NoWrite)
        BY <1>1, <1>12, <3>2 DEF f
      <3> QED
        BY <3>3, <3>4 DEF f
    <2>5. WordsInv'
      <3>1. gmem' = [a \in Gmem |-> gmem'[a]] /\ DOMAIN dirty' \subseteq Gmem
        BY <1>3, <2>3, <2>4
      <3> QED
        BY <2>3, <3>1, Zenon DEF WordsInv, NoWrite
    <2>6. \A a \in Gmem : Shown(a)' = Shown(a)
      BY <1>3, <2>3, <2>4 DEF Shown
    <2> QED
      BY <1>5, <1>6, <1>9, <2>2, <2>5, <2>6
  <1>13. CASE ~l2rep
    <2>1. dirty' = BlocksEnd(over) /\ gmem' = gmem
      <3>1. Overlay(gmem, NoWrite) = gmem
        BY <1>3 DEF Overlay, WordsInv
      <3> QED
        BY <1>1, <1>13, <3>1
    <2>2. DOMAIN dirty' = DOMAIN dirty \cup (new \cap Gmem)
      BY <1>11, <2>1, Zenon DEF BlocksEnd
    <2>3. \A a \in DOMAIN dirty' : dirty'[a] = IF a \in new THEN Thread(Shown(a)) ELSE dirty[a]
      <3> SUFFICES ASSUME NEW a \in DOMAIN dirty'
                   PROVE  dirty'[a] = IF a \in new THEN Thread(Shown(a)) ELSE dirty[a]
        OBVIOUS
      <3>1. a \in Gmem /\ (a \in Stored(over) <=> a \in new) /\ a \in DOMAIN gmem
        BY <1>10, <1>11, <2>2 DEF WordsInv
      <3>2. Overlay(gmem, dirty)[a] = Shown(a)
        BY <3>1, Zenon DEF Overlay, Shown
      <3>3. dirty'[a] = IF a \in Stored(over)
                        THEN Kernel(imem, desc.entry, cbank[0], grid_nx, Overlay(gmem, dirty)[a])
                        ELSE dirty[a]
        BY <1>11, <2>1, <2>2, Zenon DEF BlocksEnd
      <3> QED
        BY <3>1, <3>2, <3>3, Zenon DEF Thread
    <2>4. \A a \in Gmem : Shown(a)' = IF a \in new THEN Thread(Shown(a)) ELSE Shown(a)
      <3> SUFFICES ASSUME NEW a \in Gmem
                   PROVE  Shown(a)' = IF a \in new THEN Thread(Shown(a)) ELSE Shown(a)
        OBVIOUS
      <3>1. CASE a \in DOMAIN dirty'
        <4>1. Shown(a)' = dirty'[a]
          BY <3>1, Zenon DEF Shown
        <4>2. a \notin new => a \in DOMAIN dirty
          BY <2>2, <3>1
        <4>3. a \notin new => Shown(a) = dirty[a]
          BY <4>2, Zenon DEF Shown
        <4> QED
          BY <2>3, <3>1, <4>1, <4>3, Zenon
      <3>2. CASE a \notin DOMAIN dirty'
        <4>1. a \notin new /\ a \notin DOMAIN dirty
          BY <2>2, <3>2
        <4> QED
          BY <2>1, <3>2, <4>1, Zenon DEF Shown
      <3> QED
        BY <3>1, <3>2
    <2>5. WordsInv'
      <3>1. gmem' = [a \in Gmem |-> gmem'[a]] /\ DOMAIN dirty' \subseteq Gmem
        BY <2>1, <2>2 DEF WordsInv
      <3>2. dstate' = "IDLE" => dirty' = NoWrite
        <4> SUFFICES ASSUME dstate' = "IDLE" PROVE dirty' = NoWrite
          OBVIOUS
        <4>1. l2_report /\ dstate = "FWAIT" /\ running = {}
          BY <1>6 DEF IInv, PhaseInv
        <4>2. dirty = NoWrite /\ over = {}
          BY <4>1 DEF WordsInv
        <4>3. DOMAIN dirty' = {}
          BY <1>3, <1>14, <2>2, <4>2
        <4>4. dirty' = [a \in DOMAIN dirty' |-> dirty'[a]]
          BY <2>1, Zenon DEF BlocksEnd
        <4> QED
          BY <4>3, <4>4 DEF NoWrite
      <3>3. ~l2_report'
        BY <1>4, <1>13
      <3> QED
        BY <3>1, <3>2, <3>3, Zenon DEF WordsInv, NoWrite
    <2> QED
      BY <1>5, <1>6, <1>9, <2>4, <2>5
  <1> QED
    BY <1>12, <1>13

-----------------------------------------------------------------------------
\* The invariant of a session.

\* The first words of a program are where it is loaded.
Placed(words, c, n) == \A a \in 0 .. n - 1 : words[c.off + a] = c.prog.code[a + 1]

\* Every program that was loaded is whole and still where it was put.
InPlace(words, s, n) ==
  \A k \in Loads(s, n) : Whole(s.calls[k]) /\ Placed(words, s.calls[k], Len(s.calls[k].prog.code))
LoadInv ==
  /\ DOMAIN imem = 0 .. ImemWords - 1
  /\ call - 1 \in 0 .. Len(session.calls)
  /\ InPlace(imem, session, call - 1)
  /\ at # 0 => Doing("load") /\ Whole(Now) /\ at \in 0 .. Len(Now.prog.code) /\ Placed(imem, Now, at)

\* Each entry is one of the golden model's programs, in the same order.
EntriesOf(programs, list, s, n) ==
  /\ programs \in Seq(Program) /\ Len(programs) = Len(list)
  /\ \A i \in DOMAIN list : \E k \in Loads(s, n) :
       programs[i] = s.calls[k].prog /\ list[i] = s.calls[k].off + s.calls[k].prog.entry
EntryInv == EntriesOf(Old.programs, entries, session, call - 1)

\* A kernel finds the constant that the golden model finds, and no file's constant comes
\* before the host's.
ConstantOf(bank, words, s, n) ==
  /\ LDC(bank, 0) = words[0]
  /\ (\E i \in 1 .. n : s.calls[i].op = "const") => 0 \in DOMAIN bank
BankInv == DOMAIN cbank = 0 .. CbankWords - 1 /\ ConstantOf(Old.bank, cbank, session, call - 1)

GoldenInv ==
  /\ Old = State(Old.programs, Old.bank, Old.reads, Old.mem)
  /\ Old.mem = [a \in Gmem |-> Old.mem[a]]
  /\ reads = Old.reads

\* Between grids memory is the golden model's.
RestInv == ~waiting => dstate = "IDLE" /\ gmem = Old.mem

\* Under a grid the words of the blocks that have ended are as the golden model will leave
\* them, and the others as it found them.
GridInv ==
  waiting =>
    /\ grid_nx = Now.nx /\ nx_q = Now.nx
    /\ desc = [tpb |-> Now.tpb, entry |-> entries[Now.prog]]
    /\ dstate = "IDLE" => grid_done
    /\ \A a \in Gmem : Shown(a) = IF a \in OverWords THEN Thread(Old.mem[a]) ELSE Old.mem[a]

StopInv == stopped => ~Whole(Now)

HostPart   == LoadInv /\ EntryInv /\ BankInv /\ GoldenInv /\ StopInv
DevicePart == WordsInv /\ RestInv /\ GridInv
Agreed     == HostPart /\ DevicePart
SessionInv == HostInv /\ IInv /\ BidxInv /\ (timedOut = {} => Agreed)

-----------------------------------------------------------------------------
\* The sessions are those assumed.
LEMMA ProperCall ==
  ASSUME EntriesInv, NEW k \in 1 .. Len(session.calls)
  PROVE  Proper(session, k)
  BY ProperAssumption DEF EntriesInv

\* Calls are numbered.
LEMMA CallsCounted ==
  ASSUME EntriesInv
  PROVE  Len(session.calls) \in Nat /\ call \in Nat \ {0}
  BY SessionsAssumption DEF EntriesInv

\* A call that is under way is one of the session's.
LEMMA InCall ==
  ASSUME EntriesInv, NEW o, Doing(o)
  PROVE  call \in 1 .. Len(session.calls) /\ Now.op = o /\ ~stopped /\ Proper(session, call)
  <1>1. call \in 1 .. Len(session.calls) /\ Now.op = o /\ ~stopped
    BY CallsCounted DEF Doing
  <1> QED
    BY <1>1, ProperCall

\* A program that a host loads is one, in a place of its own.
LEMMA ProperLoad ==
  ASSUME EntriesInv, NEW k \in 1 .. Len(session.calls), session.calls[k].op = "load"
  PROVE  LET c == session.calls[k]
         IN  /\ c.prog \in Program /\ c.off \in Nat /\ Len(c.prog.code) \in Nat
             /\ c.off .. c.off + Len(c.prog.code) - 1 \subseteq 0 .. ImemWords - 1
             /\ \E n \in 0 .. Len(write_gpubin(c.prog)) : c.file = SubSeq(write_gpubin(c.prog), 1, n)
             /\ \E a \in c.prog.entry .. Len(c.prog.code) - 1 : c.prog.code[a + 1] = EXIT
             /\ \A j \in Loads(session, k - 1) :
                  LET d == session.calls[j]
                  IN  (d.off .. d.off + Len(d.prog.code) - 1) \cap (c.off .. c.off + Len(c.prog.code) - 1) = {}
  <1> DEFINE c == session.calls[k]
  <1>1. Proper(session, k)
    BY ProperCall
  <1>2. /\ c.prog \in Program /\ c.off \in Nat
        /\ c.off .. c.off + Len(c.prog.code) - 1 \subseteq 0 .. ImemWords - 1
        /\ \E n \in 0 .. Len(write_gpubin(c.prog)) : c.file = SubSeq(write_gpubin(c.prog), 1, n)
        /\ \E a \in c.prog.entry .. Len(c.prog.code) - 1 : c.prog.code[a + 1] = EXIT
        /\ \A j \in Loads(session, k - 1) :
             LET d == session.calls[j]
             IN  (d.off .. d.off + Len(d.prog.code) - 1) \cap (c.off .. c.off + Len(c.prog.code) - 1) = {}
    BY <1>1, Zenon DEF Proper
  <1>3. c.prog \in Program => Len(c.prog.code) \in Nat
    BY DEF Program
  <1> HIDE DEF c
  <1>4. Len(c.prog.code) \in Nat
    BY <1>2, <1>3
  <1> QED
    BY <1>2, <1>4 DEF c

\* A load succeeds with a whole file, and then brings the program.
LEMMA LoadedWhole ==
  ASSUME EntriesInv, NEW k \in 1 .. Len(session.calls), session.calls[k].op = "load"
  PROVE  LET c == session.calls[k]
             b == load_gpubin(c.file)
         IN  /\ b.ok \in BOOLEAN
             /\ b.ok <=> Whole(c)
             /\ b.ok => /\ b.entry = c.prog.entry /\ Len(b.code) = Len(c.prog.code)
                        /\ \A i \in 1 .. Len(c.prog.code) : b.code[i] = c.prog.code[i]
  <1> DEFINE c == session.calls[k]
             b == load_gpubin(c.file)
  <1>1. /\ c.prog \in Program
        /\ \E n \in 0 .. Len(write_gpubin(c.prog)) : c.file = SubSeq(write_gpubin(c.prog), 1, n)
    BY ProperLoad
  <1>2. PICK n \in 0 .. Len(write_gpubin(c.prog)) : c.file = SubSeq(write_gpubin(c.prog), 1, n)
    BY <1>1
  <1>3. AsWritten(c.prog, c.file)
    BY <1>1, <1>2, FileLoads, Zenon
  <1>4. Whole(c) <=> c.file = write_gpubin(c.prog)
    BY DEF Whole
  <1> QED
    BY <1>3, <1>4, Zenon DEF AsWritten

-----------------------------------------------------------------------------
\* What the golden model is after a step of the host.
LEMMA OldKept ==
  ASSUME UNCHANGED <<session, call>>
  PROVE  Old' = Old
  BY DEF Old

\* The call is over.
LEMMA OldNext ==
  ASSUME call \in Nat \ {0}, session' = session, call' = call + 1
  PROVE  Old' = GoldenCall(Old, Now)
  <1>1. Old' = After(session.calls, call' - 1)
    BY Zenon DEF Old
  <1>2. call' - 1 = call - 1 + 1 /\ call - 1 \in Nat /\ call - 1 + 1 = call
    OBVIOUS
  <1>3. After(session.calls, call - 1 + 1)
          = GoldenCall(After(session.calls, call - 1), session.calls[call - 1 + 1])
    BY <1>2, AfterCalls
  <1> QED
    BY <1>1, <1>2, <1>3, Zenon DEF Old, Now

\* A step within a call.
LEMMA StandStill ==
  ASSUME HostPart, UNCHANGED <<imem, cbank, session, call, at, entries, reads, stopped>>
  PROVE  HostPart' /\ Old' = Old
  <1>1. Old' = Old
    BY OldKept
  <1>2. LoadInv'
    BY DEF HostPart, LoadInv, Doing, Now
  <1>3. EntryInv'
    BY <1>1, Zenon DEF HostPart, EntryInv
  <1>4. BankInv' /\ GoldenInv'
    BY <1>1, Zenon DEF HostPart, BankInv, GoldenInv
  <1>5. StopInv'
    BY DEF HostPart, StopInv, Now
  <1> QED
    BY <1>1, <1>2, <1>3, <1>4, <1>5 DEF HostPart

-----------------------------------------------------------------------------
\* It holds at every step of the host.

\* A call other than a dispatch finds the device at rest and leaves it so.
LEMMA QuietCall ==
  ASSUME HostInv, IInv, DevicePart, ~waiting, NEW put, SimTick({}, put)
  PROVE  /\ dstate' = "IDLE" /\ dirty' = NoWrite /\ ~l2_report'
         /\ gmem' = Overlay(Old.mem, put) /\ gmem = Old.mem
  <1>1. dstate = "IDLE" /\ gmem = Old.mem /\ WordsInv
    BY DEF DevicePart, RestInv
  <1>2. dirty' = NoWrite /\ gmem' = Overlay(gmem, put) /\ ~l2_report'
    BY <1>1, RestingTick
  <1>3. dstate' = "IDLE"
    <2>1. Wait
      BY <1>1, TickCases
    <2> QED
      BY <1>1, <2>1, Zenon DEF Wait
  <1> QED
    BY <1>1, <1>2, <1>3

\* Nothing is written, nothing changes.
LEMMA Untouched ==
  ASSUME NEW f, f = [a \in Gmem |-> f[a]]
  PROVE  Overlay(f, NoWrite) = f
  <1>1. DOMAIN f = Gmem /\ DOMAIN NoWrite = {}
    BY DEF NoWrite
  <1> QED
    BY <1>1 DEF Overlay

\* At rest with memory the golden model's, all is as it should be.
LEMMA AtRest ==
  ASSUME ~waiting', dstate' = "IDLE", dirty' = NoWrite, gmem' = Old'.mem,
         Old'.mem = [a \in Gmem |-> Old'.mem[a]]
  PROVE  DevicePart'
  <1>1. DOMAIN NoWrite = {}
    BY DEF NoWrite
  <1>2. WordsInv'
    <2>1. gmem' = [a \in Gmem |-> gmem'[a]] /\ DOMAIN dirty' \subseteq Gmem
      BY <1>1
    <2> QED
      BY <2>1, Zenon DEF WordsInv, NoWrite
  <1>3. RestInv' /\ GridInv'
    BY Zenon DEF RestInv, GridInv
  <1> QED
    BY <1>2, <1>3, Zenon DEF DevicePart

\* A host that goes on within a call, or to the next one.
LEMMA LoadKept ==
  ASSUME EntriesInv, LoadInv, UNCHANGED <<imem, session>>, call' = call + 1, at' = 0,
         call \in 1 .. Len(session.calls),
         Now.op = "load" => Whole(Now) /\ Placed(imem, Now, Len(Now.prog.code))
  PROVE  LoadInv'
  <1>0. call \in Nat \ {0} /\ Len(session.calls) \in Nat
    BY CallsCounted
  <1>1. call' - 1 = call /\ call' - 1 \in 0 .. Len(session.calls)
    BY <1>0
  <1>2. InPlace(imem, session, call)
    <2>1. \A k \in Loads(session, call) :
            k \in Loads(session, call - 1) \/ (k = call /\ session.calls[call].op = "load")
      BY <1>0 DEF Loads
    <2>2. InPlace(imem, session, call - 1)
      BY DEF LoadInv
    <2> QED
      BY <2>1, <2>2, Zenon DEF InPlace, Now
  <1>3. InPlace(imem', session', call' - 1)
    BY <1>1, <1>2, Zenon
  <1>4. DOMAIN imem' = 0 .. ImemWords - 1
    BY DEF LoadInv
  <1> QED
    BY <1>1, <1>3, <1>4 DEF LoadInv

\* The programs, if none is loaded.
LEMMA EntryKept ==
  ASSUME EntriesInv, EntryInv, UNCHANGED <<session, entries>>, call' = call + 1,
         Old'.programs = Old.programs
  PROVE  EntryInv'
  <1>0. call \in Nat \ {0}
    BY CallsCounted
  <1>1. call' - 1 = call
    BY <1>0
  <1>2. Loads(session, call - 1) \subseteq Loads(session, call)
    BY <1>0 DEF Loads
  <1>3. EntriesOf(Old.programs, entries, session, call)
    <2>1. EntriesOf(Old.programs, entries, session, call - 1)
      BY DEF EntryInv
    <2> QED
      BY <1>2, <2>1, Zenon DEF EntriesOf
  <1>4. EntriesOf(Old'.programs, entries', session', call' - 1)
    BY <1>1, <1>3, Zenon
  <1> QED
    BY <1>4, Zenon DEF EntryInv

\* The constants, if none is set.
LEMMA BankKept ==
  ASSUME EntriesInv, BankInv, UNCHANGED <<session, cbank>>, call' = call + 1, Now.op # "const",
         LDC(Old'.bank, 0) = LDC(Old.bank, 0), DOMAIN Old.bank \subseteq DOMAIN Old'.bank
  PROVE  BankInv'
  <1>0. call \in Nat \ {0}
    BY CallsCounted
  <1>1. call' - 1 = call
    BY <1>0
  <1>2. ASSUME \E i \in 1 .. call : session.calls[i].op = "const"
        PROVE  \E i \in 1 .. call - 1 : session.calls[i].op = "const"
    <2>1. PICK i \in 1 .. call : session.calls[i].op = "const"
      BY <1>2
    <2>2. i # call /\ i \in 1 .. call
      BY <1>0, <2>1 DEF Now
    <2> QED
      BY <1>0, <2>1, <2>2
  <1>3. ConstantOf(Old.bank, cbank, session, call - 1) /\ DOMAIN cbank = 0 .. CbankWords - 1
    BY Zenon DEF BankInv
  <1>4. ConstantOf(Old'.bank, cbank, session, call)
    BY <1>2, <1>3 DEF ConstantOf
  <1>5. ConstantOf(Old'.bank, cbank', session', call' - 1)
    BY <1>1, <1>4, Zenon
  <1> QED
    BY <1>3, <1>5, Zenon DEF BankInv

\* The invariant's parts, for the steps below.
LEMMA Parts ==
  ASSUME HostInv, Agreed
  PROVE  /\ EntriesInv /\ OwnerInv /\ LoadInv /\ EntryInv /\ BankInv /\ GoldenInv /\ StopInv
         /\ WordsInv /\ RestInv /\ GridInv /\ HostPart /\ DevicePart
         /\ call \in Nat \ {0} /\ Len(session.calls) \in Nat
  <1>1. EntriesInv /\ OwnerInv
    BY DEF HostInv
  <1>2. call \in Nat \ {0} /\ Len(session.calls) \in Nat
    BY <1>1, CallsCounted
  <1> QED
    BY <1>1, <1>2 DEF Agreed, HostPart, DevicePart

\* In a call that is not a dispatch no grid is waited for.
LEMMA NotWaiting ==
  ASSUME OwnerInv, NEW o, Doing(o), o # "dispatch"
  PROVE  ~waiting
  BY DEF OwnerInv, Doing

\* A word of a program is put in its place, and every other program stays whole.
LEMMA LoadWordStep ==
  ASSUME HostInv, IInv, Agreed, LoadWord
  PROVE  Agreed'
  <1> DEFINE c == Now
             bin == load_gpubin(c.file)
             n == Len(c.prog.code)
  <1>0. /\ EntriesInv /\ OwnerInv /\ LoadInv /\ EntryInv /\ BankInv /\ GoldenInv /\ StopInv
        /\ DevicePart /\ call \in Nat \ {0}
    BY Parts
  <1>1. /\ Doing("load") /\ bin.ok /\ at < Len(bin.code)
        /\ imem' = [imem EXCEPT ![(c.off + at) % ImemWords] = bin.code[at + 1]]
        /\ at' = at + 1 /\ SimTick({}, NoWrite)
        /\ UNCHANGED <<cbank, grid_nx, session, call, entries, reads, waiting, timedOut, stopped, owner>>
    BY Zenon DEF LoadWord
  <1>2. call \in 1 .. Len(session.calls) /\ c = session.calls[call] /\ c.op = "load" /\ ~stopped
    BY <1>0, <1>1, InCall DEF Now
  <1>3. /\ c.off \in Nat /\ n \in Nat
        /\ c.off .. c.off + n - 1 \subseteq 0 .. ImemWords - 1
        /\ \A j \in Loads(session, call - 1) :
             LET d == session.calls[j]
             IN  (d.off .. d.off + Len(d.prog.code) - 1) \cap (c.off .. c.off + n - 1) = {}
    BY <1>0, <1>2, ProperLoad, Zenon
  <1>4. Whole(c) /\ Len(bin.code) = n /\ \A i \in 1 .. n : bin.code[i] = c.prog.code[i]
    BY <1>0, <1>1, <1>2, LoadedWhole, Zenon
  <1>5. /\ DOMAIN imem = 0 .. ImemWords - 1 /\ call - 1 \in 0 .. Len(session.calls)
        /\ InPlace(imem, session, call - 1)
        /\ at # 0 => at \in 0 .. n /\ Placed(imem, c, at)
    BY <1>0, Zenon DEF LoadInv
  <1> HIDE DEF c, bin, n
  <1>6. at \in Nat /\ at < n /\ Placed(imem, c, at)
    <2>1. Placed(imem, c, 0)
      BY DEF Placed
    <2> QED
      BY <1>1, <1>3, <1>4, <1>5, <2>1
  <1>7. /\ c.off + at \in 0 .. ImemWords - 1 /\ (c.off + at) % ImemWords = c.off + at
        /\ c.off + at \in c.off .. c.off + n - 1
    <2>1. c.off + at \in c.off .. c.off + n - 1
      BY <1>3, <1>6
    <2>2. c.off + at \in 0 .. ImemWords - 1
      BY <1>3, <2>1
    <2>3. ImemWords \in Nat \ {0}
      BY ProperAssumption
    <2> QED
      BY <2>1, <2>2, <2>3
  <1>8. imem' = [imem EXCEPT ![c.off + at] = c.prog.code[at + 1]]
    <2>1. at + 1 \in 1 .. n
      BY <1>3, <1>6
    <2>2. bin.code[at + 1] = c.prog.code[at + 1]
      BY <1>4, <2>1
    <2> QED
      BY <1>1, <1>7, <2>2, Zenon
  <1>9. /\ DOMAIN imem' = 0 .. ImemWords - 1 /\ imem'[c.off + at] = c.prog.code[at + 1]
        /\ \A w \in 0 .. ImemWords - 1 : w # c.off + at => imem'[w] = imem[w]
    BY <1>5, <1>7, <1>8
  <1>10. Placed(imem', c, at + 1)
    <2> SUFFICES ASSUME NEW a \in 0 .. at PROVE imem'[c.off + a] = c.prog.code[a + 1]
      BY <1>6 DEF Placed
    <2>1. CASE a = at
      BY <1>9, <2>1
    <2>2. CASE a # at
      <3>1. a \in 0 .. at - 1 /\ c.off + a # c.off + at /\ c.off + a \in c.off .. c.off + n - 1
        BY <1>3, <1>6, <2>2
      <3>2. c.off + a \in 0 .. ImemWords - 1
        BY <1>3, <3>1
      <3>3. imem[c.off + a] = c.prog.code[a + 1]
        BY <1>6, <3>1 DEF Placed
      <3> QED
        BY <1>9, <3>1, <3>2, <3>3
    <2> QED
      BY <2>1, <2>2
  <1>11. InPlace(imem', session, call - 1)
    <2> SUFFICES ASSUME NEW j \in Loads(session, call - 1)
                 PROVE  /\ Whole(session.calls[j])
                        /\ Placed(imem', session.calls[j], Len(session.calls[j].prog.code))
      BY Zenon DEF InPlace
    <2> DEFINE d == session.calls[j]
               m == Len(d.prog.code)
    <2>1. Whole(d) /\ Placed(imem, d, m)
      BY <1>5, Zenon DEF InPlace
    <2>2. j \in 1 .. Len(session.calls) /\ d.op = "load"
      BY <1>0, <1>2, CallsCounted DEF Loads
    <2>3. d.off \in Nat /\ m \in Nat /\ d.off .. d.off + m - 1 \subseteq 0 .. ImemWords - 1
      BY <1>0, <2>2, ProperLoad, Zenon
    <2>4. (d.off .. d.off + m - 1) \cap (c.off .. c.off + n - 1) = {}
      BY <1>3, Zenon
    <2> HIDE DEF d, m
    <2>5. ASSUME NEW a \in 0 .. m - 1 PROVE imem'[d.off + a] = d.prog.code[a + 1]
      <3>1. d.off + a \in d.off .. d.off + m - 1
        BY <2>3
      <3>2. d.off + a \in 0 .. ImemWords - 1 /\ d.off + a # c.off + at
        BY <1>7, <2>3, <2>4, <3>1
      <3>3. imem[d.off + a] = d.prog.code[a + 1]
        BY <2>1 DEF Placed
      <3> QED
        BY <1>9, <3>2, <3>3
    <2>6. Placed(imem', d, m)
      BY <2>5 DEF Placed
    <2> QED
      BY <2>1, <2>6, Zenon DEF d, m
  <1>12. Old' = Old
    BY <1>1, OldKept
  <1>13. LoadInv'
    <2>1. Now' = c /\ Doing("load")'
      BY <1>1, <1>2 DEF Now, Doing, c
    <2>2. at' \in 0 .. n /\ Placed(imem', c, at')
      BY <1>1, <1>3, <1>6, <1>10
    <2>3. InPlace(imem', session', call' - 1)
      BY <1>1, <1>11, Zenon
    <2>4. Whole(Now') /\ at' \in 0 .. Len(Now'.prog.code) /\ Placed(imem', Now', at')
      BY <1>4, <2>1, <2>2, Zenon DEF n
    <2>5. call' - 1 \in 0 .. Len(session'.calls) /\ DOMAIN imem' = 0 .. ImemWords - 1
      BY <1>1, <1>5, <1>9, Zenon
    <2> QED
      BY <2>1, <2>3, <2>4, <2>5, Zenon DEF LoadInv
  <1>14. EntryInv' /\ BankInv' /\ GoldenInv'
    BY <1>0, <1>1, <1>12, Zenon DEF EntryInv, BankInv, GoldenInv
  <1>15. StopInv'
    BY <1>1, <1>2 DEF StopInv
  <1>16. ~waiting /\ waiting' = waiting
    BY <1>0, <1>1, NotWaiting
  <1>17. DevicePart'
    <2>1. dstate' = "IDLE" /\ dirty' = NoWrite /\ gmem' = Overlay(Old.mem, NoWrite)
      BY <1>0, <1>1, <1>16, QuietCall
    <2>2. Old.mem = [a \in Gmem |-> Old.mem[a]]
      BY <1>0 DEF GoldenInv
    <2>3. gmem' = Old.mem
      BY <2>1, <2>2, Untouched
    <2>4. gmem' = Old'.mem /\ Old'.mem = [a \in Gmem |-> Old'.mem[a]]
      BY <1>12, <2>2, <2>3, Zenon
    <2>5. ~waiting'
      BY <1>16
    <2> QED
      BY <2>1, <2>4, <2>5, AtRest
  <1> QED
    BY <1>13, <1>14, <1>15, <1>17 DEF Agreed, HostPart

\* The golden model goes through the call with the host.
LEMMA GoldenGoes ==
  ASSUME EntriesInv, GoldenInv, NEW o, Doing(o), session' = session, call' = call + 1
  PROVE  /\ o = "load"  => Old' = State(Append(Old.programs, Now.prog), Old.bank, Old.reads, Old.mem)
         /\ o = "const" => Old' = State(Old.programs, set_const(Old.bank, Now.idx, Now.val),
                                        Old.reads, Old.mem)
         /\ o = "write" => Old' = State(Old.programs, Old.bank, Old.reads,
                                        [Old.mem EXCEPT ![Now.byte \div 4] = Now.val])
         /\ o = "read"  => Old' = State(Old.programs, Old.bank,
                                        Append(Old.reads, Old.mem[Now.byte \div 4]), Old.mem)
         /\ o = "dispatch" => Old' = run(Old, Now)
         /\ \A b, m : [Old EXCEPT !.bank = b, !.mem = m] = State(Old.programs, b, Old.reads, m)
  <1>1. Old' = GoldenCall(Old, Now)
    BY CallsCounted, OldNext
  <1>2. Now.op = o
    BY DEF Doing
  <1> DEFINE g == Old
             c == Now
             P == Old.programs
             B == Old.bank
             R == Old.reads
             M == Old.mem
  <1>3. g = State(P, B, R, M) /\ Old' = GoldenCall(g, c) /\ c.op = o
    BY <1>1, <1>2, Zenon DEF GoldenInv
  <1> HIDE DEF g, c, P, B, R, M
  <1>7. CallGoes(g, c, P, B, R, M)
    BY <1>3, CallFields, Zenon
  <1>4. /\ c.op = "load"  => GoldenCall(g, c) = State(Append(P, c.prog), B, R, M)
        /\ c.op = "const" => GoldenCall(g, c) = State(P, set_const(B, c.idx, c.val), R, M)
        /\ c.op = "write" => GoldenCall(g, c) = State(P, B, R, [M EXCEPT ![c.byte \div 4] = c.val])
        /\ c.op = "read"  => GoldenCall(g, c) = State(P, B, Append(R, M[c.byte \div 4]), M)
        /\ c.op = "dispatch" => GoldenCall(g, c) = run(g, c)
        /\ \A b, m : [g EXCEPT !.bank = b, !.mem = m] = State(P, b, R, m)
    BY <1>7, Zenon DEF CallGoes
  <1>5. /\ o = "load"  => Old' = State(Append(P, c.prog), B, R, M)
        /\ o = "const" => Old' = State(P, set_const(B, c.idx, c.val), R, M)
        /\ o = "write" => Old' = State(P, B, R, [M EXCEPT ![c.byte \div 4] = c.val])
        /\ o = "read"  => Old' = State(P, B, Append(R, M[c.byte \div 4]), M)
        /\ o = "dispatch" => Old' = run(g, c)
    BY <1>3, <1>4, Zenon
  <1> QED
    BY <1>4, <1>5, Zenon DEF g, c, P, B, R, M

HasFields(g, P, B, R, M) ==
  /\ g.programs = P /\ g.bank = B /\ g.reads = R /\ g.mem = M
  /\ g = State(g.programs, g.bank, g.reads, g.mem)

\* The golden model's state by its fields.
LEMMA StateFields ==
  ASSUME NEW P, NEW B, NEW R, NEW M
  PROVE  HasFields(State(P, B, R, M), P, B, R, M)
  BY DEF State, HasFields

\* A load that is done appends the program to both lists.
LEMMA LoadedStep ==
  ASSUME HostInv, IInv, Agreed, Loaded
  PROVE  Agreed'
  <1> DEFINE c == Now
             bin == load_gpubin(c.file)
  <1>0. /\ EntriesInv /\ OwnerInv /\ LoadInv /\ EntryInv /\ BankInv /\ GoldenInv /\ StopInv
        /\ WordsInv /\ RestInv /\ DevicePart /\ call \in Nat \ {0}
    BY Parts
  <1>1. /\ Doing("load") /\ bin.ok /\ at = Len(bin.code)
        /\ entries' = Append(entries, c.off + bin.entry)
        /\ call' = call + 1 /\ at' = 0
        /\ UNCHANGED <<vars, deviceVars, grid_nx, session, reads, waiting, timedOut, stopped, owner>>
    BY Zenon DEF Loaded, NextCall, Entry
  <1>2. call \in 1 .. Len(session.calls) /\ c = session.calls[call] /\ c.op = "load" /\ ~stopped
    BY <1>0, <1>1, InCall DEF Now
  <1>3. c.prog \in Program /\ Len(c.prog.code) \in Nat
    BY <1>0, <1>2, ProperLoad, Zenon
  <1>4. Whole(c) /\ Len(bin.code) = Len(c.prog.code) /\ bin.entry = c.prog.entry
    BY <1>0, <1>1, <1>2, LoadedWhole, Zenon
  <1>5. UNCHANGED <<imem, cbank, gmem, dirty, dstate>>
    BY <1>1 DEF deviceVars, vars, dispatchVars
  <1>6. Old' = State(Append(Old.programs, c.prog), Old.bank, Old.reads, Old.mem)
    BY <1>0, <1>1, GoldenGoes
  <1>7. /\ Old'.programs = Append(Old.programs, c.prog) /\ Old'.bank = Old.bank
        /\ Old'.reads = Old.reads /\ Old'.mem = Old.mem
        /\ Old' = State(Old'.programs, Old'.bank, Old'.reads, Old'.mem)
    <2> DEFINE P == Append(Old.programs, c.prog)
    <2> HIDE DEF P
    <2>1. Old' = State(P, Old.bank, Old.reads, Old.mem)
      BY <1>6 DEF P
    <2>2. /\ Old'.programs = P /\ Old'.bank = Old.bank /\ Old'.reads = Old.reads /\ Old'.mem = Old.mem
          /\ Old' = State(Old'.programs, Old'.bank, Old'.reads, Old'.mem)
      <3>1. HasFields(Old', P, Old.bank, Old.reads, Old.mem)
        BY <2>1, StateFields
      <3> QED
        BY <3>1, Zenon DEF HasFields
    <2> QED
      BY <2>2, Zenon DEF P
  <1> HIDE DEF c, bin
  <1>8. LoadInv'
    <2>1. Placed(imem, c, Len(c.prog.code))
      <3>1. at # 0 => Placed(imem, c, at)
        BY <1>0 DEF LoadInv, c
      <3>2. Placed(imem, c, 0)
        BY DEF Placed
      <3> QED
        BY <1>1, <1>4, <3>1, <3>2
    <2> QED
      BY <1>0, <1>1, <1>2, <1>4, <1>5, <2>1, LoadKept DEF c
  <1>9. EntryInv'
    <2>1. EntriesOf(Old.programs, entries, session, call - 1) /\ DOMAIN entries = 1 .. Len(entries)
          /\ Len(entries) \in Nat
      <3>1. EntriesOf(Old.programs, entries, session, call - 1)
        BY <1>0 DEF EntryInv
      <3>2. Cardinality(Loads(session, call - 1)) \in Nat
        BY <1>0, LoadsFinite
      <3> QED
        BY <1>0, <3>1, <3>2 DEF EntriesInv
    <2> DEFINE P == Old.programs
               Q == Append(P, c.prog)
               e == c.off + bin.entry
               d == Append(entries, e)
    <2>2. P \in Seq(Program) /\ Len(P) = Len(entries)
      BY <2>1 DEF EntriesOf
    <2> HIDE DEF P, e
    <2>3. Q \in Seq(Program) /\ Len(Q) = Len(P) + 1 /\ Q[Len(P) + 1] = c.prog
          /\ \A i \in 1 .. Len(P) : Q[i] = P[i]
      BY <1>3, <2>2
    <2>4. Len(d) = Len(entries) + 1 /\ DOMAIN d = 1 .. Len(d) /\ d[Len(entries) + 1] = e
          /\ \A i \in 1 .. Len(entries) : d[i] = entries[i]
      BY <2>1
    <2> HIDE DEF Q, d
    <2>5. Loads(session, call - 1) \subseteq Loads(session, call) /\ call \in Loads(session, call)
      BY <1>0, <1>2 DEF Loads
    <2>6. \A i \in DOMAIN d : \E k \in Loads(session, call) :
            Q[i] = session.calls[k].prog /\ d[i] = session.calls[k].off + session.calls[k].prog.entry
      <3> SUFFICES ASSUME NEW i \in 1 .. Len(entries) + 1
                   PROVE  \E k \in Loads(session, call) :
                     /\ Q[i] = session.calls[k].prog
                     /\ d[i] = session.calls[k].off + session.calls[k].prog.entry
        BY <2>1, <2>4
      <3>1. CASE i = Len(entries) + 1
        <4>1. Q[i] = session.calls[call].prog
          BY <1>2, <2>2, <2>3, <3>1
        <4>2. d[i] = session.calls[call].off + session.calls[call].prog.entry
          BY <1>2, <1>4, <2>4, <3>1 DEF e
        <4> QED
          BY <2>5, <4>1, <4>2
      <3>2. CASE i \in 1 .. Len(entries)
        <4>1. Q[i] = P[i] /\ d[i] = entries[i]
          BY <2>2, <2>3, <2>4, <3>2
        <4>2. \E k \in Loads(session, call - 1) :
                /\ P[i] = session.calls[k].prog
                /\ entries[i] = session.calls[k].off + session.calls[k].prog.entry
          BY <2>1, <3>2, Zenon DEF EntriesOf, P
        <4> QED
          BY <2>5, <4>1, <4>2
      <3> QED
        BY <2>1, <3>1, <3>2
    <2>7. EntriesOf(Q, d, session, call)
      BY <2>2, <2>3, <2>4, <2>6, Zenon DEF EntriesOf
    <2>8. Old'.programs = Q /\ entries' = d /\ session' = session /\ call' - 1 = call
      BY <1>0, <1>1, <1>7 DEF P, Q, d, e
    <2> QED
      BY <2>7, <2>8, Zenon DEF EntryInv
  <1>10. BankInv'
    <2>1. UNCHANGED <<session, cbank>> /\ call' = call + 1 /\ Now.op # "const"
      BY <1>1, <1>2, <1>5 DEF c
    <2> QED
      BY <1>0, <1>7, <2>1, BankKept
  <1>11. GoldenInv'
    BY <1>0, <1>1, <1>7, Zenon DEF GoldenInv
  <1>12. StopInv'
    BY <1>1, <1>2 DEF StopInv
  <1>13. ~waiting /\ waiting' = waiting
    BY <1>0, <1>1, NotWaiting
  <1>14. DevicePart'
    <2>1. dstate = "IDLE" /\ gmem = Old.mem /\ dirty = NoWrite /\ Old.mem = [a \in Gmem |-> Old.mem[a]]
      BY <1>0, <1>13 DEF RestInv, WordsInv, GoldenInv
    <2>2. /\ dstate' = "IDLE" /\ gmem' = Old'.mem /\ dirty' = NoWrite
          /\ Old'.mem = [a \in Gmem |-> Old'.mem[a]]
      BY <1>5, <1>7, <2>1, Zenon
    <2> QED
      BY <1>13, <2>2, AtRest
  <1> QED
    BY <1>8, <1>9, <1>10, <1>11, <1>12, <1>14 DEF Agreed, HostPart

\* Constant 0 is the host's in both models.
LEMMA ConstStep ==
  ASSUME HostInv, IInv, Agreed, setConst
  PROVE  Agreed'
  <1> DEFINE c == Now
             B == set_const(Old.bank, c.idx, c.val)
  <1>0. /\ EntriesInv /\ OwnerInv /\ LoadInv /\ EntryInv /\ BankInv /\ GoldenInv /\ StopInv
        /\ DevicePart /\ call \in Nat \ {0} /\ Len(session.calls) \in Nat
    BY Parts
  <1>1. /\ Doing("const") /\ call' = call + 1 /\ at' = 0 /\ SimTick({}, NoWrite)
        /\ cbank' = [cbank EXCEPT ![c.idx % CbankWords] = c.val]
        /\ UNCHANGED <<imem, session, entries, reads, waiting, stopped>>
    BY Zenon DEF setConst, NextCall
  <1>2. call \in 1 .. Len(session.calls) /\ c = session.calls[call] /\ c.op = "const" /\ ~stopped
        /\ Proper(session, call)
    BY <1>0, <1>1, InCall DEF Now
  <1>3. c.idx \in 0 .. CbankWords - 1 /\ c.idx % CbankWords = c.idx
    <2>1. c.idx \in 0 .. CbankWords - 1
      BY <1>2, Zenon DEF Proper
    <2>2. CbankWords \in Nat \ {0}
      BY ProperAssumption
    <2> QED
      BY <2>1, <2>2
  <1>4. Old' = State(Old.programs, B, Old.reads, Old.mem)
    BY <1>0, <1>1, GoldenGoes, Zenon
  <1>5. /\ Old'.programs = Old.programs /\ Old'.bank = B
        /\ Old'.reads = Old.reads /\ Old'.mem = Old.mem
        /\ Old' = State(Old'.programs, Old'.bank, Old'.reads, Old'.mem)
    <2> HIDE DEF B
    <2>1. HasFields(Old', Old.programs, B, Old.reads, Old.mem)
      BY <1>4, StateFields
    <2> QED
      BY <2>1, Zenon DEF HasFields
  <1>6. LoadInv' /\ EntryInv'
    <2>1. Now.op # "load"
      BY <1>2
    <2> QED
      BY <1>0, <1>1, <1>2, <1>5, <2>1, LoadKept, EntryKept
  <1>7. BankInv'
    <2>1. DOMAIN cbank = 0 .. CbankWords - 1 /\ LDC(Old.bank, 0) = cbank[0]
      BY <1>0 DEF BankInv, ConstantOf
    <2>2. DOMAIN cbank' = 0 .. CbankWords - 1 /\ cbank'[0] = IF c.idx = 0 THEN c.val ELSE cbank[0]
      BY <1>1, <1>3, <2>1
    <2> HIDE DEF c
    <2>3. 0 \in DOMAIN B /\ B[0] = IF c.idx = 0 THEN c.val ELSE LDC(Old.bank, 0)
      <3>1. 0 \in 0 .. c.idx
        BY <1>3
      <3> QED
        BY <3>1 DEF set_const, LDC
    <2> HIDE DEF B
    <2>4. LDC(B, 0) = cbank'[0]
      BY <2>1, <2>2, <2>3 DEF LDC
    <2>5. ConstantOf(B, cbank', session', call' - 1)
      BY <2>3, <2>4, Zenon DEF ConstantOf
    <2> QED
      BY <1>5, <2>2, <2>5, Zenon DEF BankInv
  <1>8. GoldenInv'
    BY <1>0, <1>1, <1>5, Zenon DEF GoldenInv
  <1>9. StopInv'
    BY <1>1, <1>2 DEF StopInv
  <1>10. ~waiting /\ waiting' = waiting
    BY <1>0, <1>1, NotWaiting
  <1>11. DevicePart'
    <2>1. dstate' = "IDLE" /\ dirty' = NoWrite /\ gmem' = Overlay(Old.mem, NoWrite)
      BY <1>0, <1>1, <1>10, QuietCall
    <2>2. Old.mem = [a \in Gmem |-> Old.mem[a]]
      BY <1>0 DEF GoldenInv
    <2>3. gmem' = Old.mem
      BY <2>1, <2>2, Untouched
    <2>4. gmem' = Old'.mem /\ Old'.mem = [a \in Gmem |-> Old'.mem[a]]
      BY <1>5, <2>2, <2>3, Zenon
    <2> QED
      BY <1>10, <2>1, <2>4, AtRest
  <1> QED
    BY <1>6, <1>7, <1>8, <1>9, <1>11 DEF Agreed, HostPart

\* A byte address that the memory has.
LEMMA Addressed ==
  ASSUME NEW byte \in Nat, byte \div 4 < GmemWords
  PROVE  WordAddress(byte) = byte \div 4 /\ byte \div 4 \in Gmem
  <1>1. GmemWords \in Nat \ {0} /\ byte \div 4 \in Nat
    BY ProperAssumption
  <1> DEFINE w == byte \div 4
  <1> HIDE DEF w
  <1>2. w \in Nat /\ w < GmemWords
    BY <1>1 DEF w
  <1>3. w % GmemWords = w /\ w \in 0 .. GmemWords - 1
    BY <1>1, <1>2
  <1> QED
    BY <1>3, Zenon DEF w, WordAddress, Gmem

\* A word the host writes, in both memories.
LEMMA WriteStep ==
  ASSUME HostInv, IInv, Agreed, memWrite
  PROVE  Agreed'
  <1> DEFINE c == Now
             w == c.byte \div 4
             M == [Old.mem EXCEPT ![w] = c.val]
             put == [a \in {WordAddress(c.byte)} |-> c.val]
  <1>0. /\ EntriesInv /\ OwnerInv /\ LoadInv /\ EntryInv /\ BankInv /\ GoldenInv /\ StopInv
        /\ DevicePart /\ call \in Nat \ {0} /\ Len(session.calls) \in Nat
    BY Parts
  <1>1. /\ Doing("write") /\ call' = call + 1 /\ at' = 0 /\ SimTick({}, put)
        /\ UNCHANGED <<imem, cbank, session, entries, reads, waiting, stopped>>
    BY Zenon DEF memWrite, NextCall, Quiet
  <1>2. call \in 1 .. Len(session.calls) /\ c = session.calls[call] /\ c.op = "write" /\ ~stopped
        /\ Proper(session, call)
    BY <1>0, <1>1, InCall DEF Now
  <1>3. WordAddress(c.byte) = w /\ w \in Gmem
    <2>1. c.byte \in Nat /\ c.byte \div 4 < GmemWords
      BY <1>2 DEF Proper
    <2> QED
      BY <2>1, Addressed
  <1>4. Old' = State(Old.programs, Old.bank, Old.reads, M)
    BY <1>0, <1>1, GoldenGoes, Zenon
  <1>5. /\ Old'.programs = Old.programs /\ Old'.bank = Old.bank
        /\ Old'.reads = Old.reads /\ Old'.mem = M
        /\ Old' = State(Old'.programs, Old'.bank, Old'.reads, Old'.mem)
    <2> HIDE DEF M
    <2>1. HasFields(Old', Old.programs, Old.bank, Old.reads, M)
      BY <1>4, StateFields
    <2> QED
      BY <2>1, Zenon DEF HasFields
  <1>6. LoadInv' /\ EntryInv' /\ BankInv'
    <2>1. Now.op # "load" /\ Now.op # "const"
      BY <1>2
    <2> QED
      BY <1>0, <1>1, <1>2, <1>5, <2>1, LoadKept, EntryKept, BankKept
  <1>7. Old.mem = [a \in Gmem |-> Old.mem[a]]
    BY <1>0 DEF GoldenInv
  <1>8. M = [a \in Gmem |-> M[a]]
    BY <1>7
  <1>9. GoldenInv'
    <2> HIDE DEF M
    <2> QED
      BY <1>0, <1>1, <1>5, <1>8, Zenon DEF GoldenInv
  <1>10. StopInv'
    BY <1>1, <1>2 DEF StopInv
  <1>11. ~waiting /\ waiting' = waiting
    BY <1>0, <1>1, NotWaiting
  <1>12. DevicePart'
    <2>1. dstate' = "IDLE" /\ dirty' = NoWrite /\ gmem' = Overlay(Old.mem, put)
      <3> HIDE DEF put
      <3> QED
        BY <1>0, <1>1, <1>11, QuietCall
    <2>2. put = [a \in {w} |-> c.val]
      BY <1>3, Zenon
    <2> HIDE DEF put, w, c
    <2>3. Overlay(Old.mem, put) = M
      BY <1>3, <1>7, <2>2 DEF Overlay
    <2> HIDE DEF M
    <2>4. gmem' = Old'.mem /\ Old'.mem = [a \in Gmem |-> Old'.mem[a]]
      BY <1>5, <1>8, <2>1, <2>3, Zenon
    <2> QED
      BY <1>11, <2>1, <2>4, AtRest
  <1> QED
    BY <1>6, <1>9, <1>10, <1>12 DEF Agreed, HostPart

\* A read returns the golden model's word: no grid runs and no cache keeps it back.
LEMMA ReadStep ==
  ASSUME HostInv, IInv, Agreed, memRead
  PROVE  Agreed'
  <1> DEFINE c == Now
             w == c.byte \div 4
             R == Append(Old.reads, Old.mem[w])
  <1>0. /\ EntriesInv /\ OwnerInv /\ LoadInv /\ EntryInv /\ BankInv /\ GoldenInv /\ StopInv
        /\ DevicePart /\ WordsInv /\ RestInv /\ call \in Nat \ {0} /\ Len(session.calls) \in Nat
    BY Parts
  <1>1. /\ Doing("read") /\ call' = call + 1 /\ at' = 0
        /\ reads' = Append(reads, gmem[WordAddress(c.byte)])
        /\ UNCHANGED <<vars, deviceVars, session, entries, waiting, stopped>>
    BY Zenon DEF memRead, NextCall
  <1>2. call \in 1 .. Len(session.calls) /\ c = session.calls[call] /\ c.op = "read" /\ ~stopped
        /\ Proper(session, call)
    BY <1>0, <1>1, InCall DEF Now
  <1>3. WordAddress(c.byte) = w
    <2>1. c.byte \in Nat /\ c.byte \div 4 < GmemWords
      BY <1>2 DEF Proper
    <2> QED
      BY <2>1, Addressed
  <1>4. Old' = State(Old.programs, Old.bank, R, Old.mem)
    BY <1>0, <1>1, GoldenGoes, Zenon
  <1>5. /\ Old'.programs = Old.programs /\ Old'.bank = Old.bank
        /\ Old'.reads = R /\ Old'.mem = Old.mem
        /\ Old' = State(Old'.programs, Old'.bank, Old'.reads, Old'.mem)
    <2> HIDE DEF R
    <2>1. HasFields(Old', Old.programs, Old.bank, R, Old.mem)
      BY <1>4, StateFields
    <2> QED
      BY <2>1, Zenon DEF HasFields
  <1>6. UNCHANGED <<imem, cbank, gmem, dirty, dstate>>
    BY <1>1 DEF deviceVars, vars, dispatchVars
  <1>7. LoadInv' /\ EntryInv' /\ BankInv'
    <2>1. Now.op # "load" /\ Now.op # "const"
      BY <1>2
    <2> QED
      BY <1>0, <1>1, <1>2, <1>5, <1>6, <2>1, LoadKept, EntryKept, BankKept
  <1>8. ~waiting /\ waiting' = waiting
    BY <1>0, <1>1, NotWaiting
  <1>9. dstate = "IDLE" /\ gmem = Old.mem /\ dirty = NoWrite /\ Old.mem = [a \in Gmem |-> Old.mem[a]]
        /\ reads = Old.reads
    BY <1>0, <1>8 DEF RestInv, WordsInv, GoldenInv
  <1>10. GoldenInv'
    <2>1. reads' = R
      BY <1>1, <1>3, <1>9
    <2> HIDE DEF R
    <2> QED
      BY <1>5, <1>9, <2>1, Zenon DEF GoldenInv
  <1>11. StopInv'
    BY <1>1, <1>2 DEF StopInv
  <1>12. DevicePart'
    <2>1. /\ dstate' = "IDLE" /\ gmem' = Old'.mem /\ dirty' = NoWrite
          /\ Old'.mem = [a \in Gmem |-> Old'.mem[a]]
      BY <1>5, <1>6, <1>9, Zenon
    <2> QED
      BY <1>8, <2>1, AtRest
  <1> QED
    BY <1>7, <1>10, <1>11, <1>12 DEF Agreed, HostPart

\* A launch finds the device at rest and is taken; no block of the new grid is over.
LEMMA DispatchStep ==
  ASSUME HostInv, IInv, Agreed, dispatch
  PROVE  Agreed'
  <1> DEFINE d == [tpb |-> Now.tpb, entry |-> entries[Now.prog]]
  <1>0. /\ HostPart /\ DevicePart /\ WordsInv /\ RestInv /\ GoldenInv /\ call \in Nat \ {0}
    BY Parts
  <1>1. /\ Doing("dispatch") /\ ~waiting
        /\ grid_nx' = Now.nx /\ waiting' = TRUE
        /\ UNCHANGED <<imem, cbank>> /\ SimTick({d}, NoWrite)
        /\ UNCHANGED <<session, call, at, entries, reads, timedOut, stopped>>
    BY Zenon DEF dispatch, Quiet
  <1>2. HostPart' /\ Old' = Old
    BY <1>0, <1>1, StandStill
  <1>3. dstate = "IDLE" /\ gmem = Old.mem /\ dirty = NoWrite /\ Old.mem = [a \in Gmem |-> Old.mem[a]]
    BY <1>0, <1>1 DEF RestInv, WordsInv, GoldenInv
  <1> HIDE DEF d
  <1>4. dirty' = NoWrite /\ gmem' = Old.mem /\ ~l2_report'
    <2>1. dirty' = NoWrite /\ gmem' = Overlay(gmem, NoWrite) /\ ~l2_report'
      BY <1>0, <1>1, <1>3, RestingTick
    <2> QED
      BY <1>3, <2>1, Untouched
  <1>5. Clock /\ Launch(grid_nx', d)
    BY <1>1, <1>3, TickCases
  <1>6. /\ nx_q' = grid_nx' /\ desc' = d /\ cu_start' = {} /\ next_bidx' = 0
        /\ grid_done' = (grid_nx' = 0) /\ dstate' = IF grid_nx' = 0 THEN "IDLE" ELSE "DISPATCH"
    BY <1>5, Zenon DEF Launch
  <1>7. OverWords' = {}
    <2>1. Over' = {}
      BY <1>6 DEF Over
    <2>2. OverWords' = WordsOf({}, desc'.tpb)
      BY <2>1, Zenon DEF OverWords
    <2>3. \A n : WordsOf({}, n) = {}
      BY DEF WordsOf
    <2> QED
      BY <2>2, <2>3
  <1>8. dstate' = "IDLE" => grid_done'
    <2>1. CASE grid_nx' = 0
      BY <1>6, <2>1, Zenon
    <2>2. CASE grid_nx' # 0
      BY <1>6, <2>2
    <2> QED
      BY <2>1, <2>2
  <1>9. \A a \in Gmem : Shown(a)' = Old.mem[a]
    <2>1. DOMAIN dirty' = {}
      BY <1>4 DEF NoWrite
    <2> QED
      BY <1>4, <2>1, Zenon DEF Shown
  <1>10. GridInv'
    <2>1. Now' = Now /\ d = [tpb |-> Now.tpb, entry |-> entries[Now.prog]]
      BY <1>1 DEF Now, d
    <2>2. /\ grid_nx' = Now'.nx /\ nx_q' = Now'.nx
          /\ desc' = [tpb |-> Now'.tpb, entry |-> entries'[Now'.prog]]
      BY <1>1, <1>6, <2>1
    <2>3. \A a \in Gmem : Shown(a)' = IF a \in OverWords' THEN Thread(Old.mem[a])' ELSE Old'.mem[a]
      BY <1>2, <1>7, <1>9
    <2> QED
      BY <1>8, <2>2, <2>3, Zenon DEF GridInv
  <1>11. WordsInv' /\ RestInv'
    <2>1. gmem' = [a \in Gmem |-> gmem'[a]] /\ DOMAIN dirty' \subseteq Gmem
      BY <1>3, <1>4 DEF NoWrite
    <2> QED
      BY <1>1, <1>4, <2>1, Zenon DEF WordsInv, RestInv, NoWrite
  <1> QED
    BY <1>2, <1>10, <1>11 DEF Agreed, DevicePart

\* The grid that a host waits for is of the dispatch it is in.
LEMMA Asked ==
  ASSUME HostInv, Agreed, waiting
  PROVE  /\ Doing("dispatch") /\ call \in 1 .. Len(session.calls) /\ Now.op = "dispatch" /\ ~stopped
         /\ Now = session.calls[call]
         /\ grid_nx = Now.nx /\ nx_q = Now.nx /\ Now.nx \in Nat
         /\ desc.tpb = Now.tpb /\ desc.entry = entries[Now.prog]
         /\ Now.tpb \in 0 .. BlockThreads /\ BlockThreads \in Nat
         /\ Now.prog \in DOMAIN entries
         /\ \A j \in Loads(session, call - 1) :
              \/ session.calls[j].prog.kconst = <<>>
              \/ \E i \in 1 .. call - 1 : session.calls[i].op = "const"
  <1>0. EntriesInv /\ OwnerInv /\ GridInv
    BY Parts
  <1>1. Doing("dispatch")
    BY <1>0 DEF OwnerInv
  <1>2. call \in 1 .. Len(session.calls) /\ Now.op = "dispatch" /\ ~stopped /\ Proper(session, call)
        /\ Now = session.calls[call]
    BY <1>0, <1>1, InCall DEF Now
  <1>3. grid_nx = Now.nx /\ nx_q = Now.nx /\ desc = [tpb |-> Now.tpb, entry |-> entries[Now.prog]]
    BY <1>0 DEF GridInv
  <1>4. /\ Now.tpb \in 0 .. BlockThreads
        /\ \A j \in Loads(session, call - 1) :
             \/ session.calls[j].prog.kconst = <<>>
             \/ \E i \in 1 .. call - 1 : session.calls[i].op = "const"
    BY <1>2, Zenon DEF Proper
  <1>5. session \in Sessions /\ DOMAIN entries = 1 .. Cardinality(Loads(session, call - 1))
    BY <1>0 DEF EntriesInv
  <1>6. Now.nx \in GridSizes /\ Now.prog \in 1 .. Cardinality(Loads(session, call - 1))
    BY <1>2, <1>5, SessionsAssumption
  <1>7. Now.nx \in Nat
    BY <1>6, DispatchAssumption
  <1>8. BlockThreads \in Nat
    BY ProperAssumption
  <1>9. desc.tpb = Now.tpb /\ desc.entry = entries[Now.prog]
    BY <1>3
  <1> QED
    BY <1>1, <1>2, <1>3, <1>4, <1>5, <1>6, <1>7, <1>8, <1>9

\* A clock of the grid: the words of the blocks that end become what the golden model will
\* leave there.
LEMMA AwaitStep ==
  ASSUME HostInv, IInv, BidxInv, Agreed, Await
  PROVE  Agreed'
  <1>0. /\ HostPart /\ DevicePart /\ WordsInv /\ GridInv /\ GoldenInv /\ call \in Nat \ {0}
    BY Parts
  <1>1. /\ waiting /\ ~grid_done /\ SimTick({}, NoWrite)
        /\ UNCHANGED <<imem, cbank, grid_nx>>
        /\ UNCHANGED <<session, call, at, entries, reads, waiting, stopped>>
    BY Zenon DEF Await, Quiet, callVars
  <1>2. HostPart' /\ Old' = Old
    BY <1>0, <1>1, StandStill
  <1>3. /\ dstate # "IDLE" /\ desc.tpb \in Nat
    <2>1. dstate # "IDLE"
      BY <1>0, <1>1 DEF GridInv
    <2> QED
      BY <1>1, <2>1, Asked
  <1>4. /\ WordsInv' /\ desc' = desc /\ nx_q' = nx_q /\ (dstate' = "IDLE" => grid_done')
        /\ \E new \in SUBSET Nat :
             /\ OverWords' = OverWords \cup new /\ new \cap OverWords = {}
             /\ \A a \in Gmem : Shown(a)' = IF a \in new THEN Thread(Shown(a)) ELSE Shown(a)
    BY <1>0, <1>1, <1>3, BusyTick
  <1>5. PICK new \in SUBSET Nat :
          /\ OverWords' = OverWords \cup new /\ new \cap OverWords = {}
          /\ \A a \in Gmem : Shown(a)' = IF a \in new THEN Thread(Shown(a)) ELSE Shown(a)
    BY <1>4
  <1>6. /\ grid_nx = Now.nx /\ nx_q = Now.nx
        /\ desc = [tpb |-> Now.tpb, entry |-> entries[Now.prog]]
        /\ \A a \in Gmem : Shown(a) = IF a \in OverWords THEN Thread(Old.mem[a]) ELSE Old.mem[a]
    BY <1>0, <1>1 DEF GridInv
  <1>7. \A v : Kernel(imem', desc'.entry, cbank'[0], grid_nx', v)
                 = Kernel(imem, desc.entry, cbank[0], grid_nx, v)
    BY <1>1, <1>4, Zenon
  <1>8. \A a \in Gmem : Thread(Old.mem[a])' = Thread(Old.mem[a])
    BY <1>2, <1>7, Zenon DEF Thread
  <1>9. \A a \in Gmem : Shown(a)' = IF a \in OverWords' THEN Thread(Old.mem[a])' ELSE Old'.mem[a]
    <2> SUFFICES ASSUME NEW a \in Gmem
                 PROVE  Shown(a)' = IF a \in OverWords' THEN Thread(Old.mem[a])' ELSE Old'.mem[a]
      OBVIOUS
    <2>1. Thread(Old.mem[a])' = Thread(Old.mem[a]) /\ Old'.mem[a] = Old.mem[a]
      BY <1>2, <1>8
    <2>2. CASE a \in new
      <3>1. Shown(a) = Old.mem[a] /\ a \in OverWords'
        BY <1>5, <1>6, <2>2
      <3>2. Shown(a)' = Thread(Shown(a))
        BY <1>5, <2>2
      <3> QED
        BY <2>1, <3>1, <3>2, Zenon
    <2>3. CASE a \notin new
      <3>1. Shown(a)' = Shown(a) /\ (a \in OverWords' <=> a \in OverWords)
        BY <1>5, <2>3
      <3> QED
        BY <1>6, <2>1, <3>1, Zenon
    <2> QED
      BY <2>2, <2>3
  <1>10. GridInv'
    <2>1. Now' = Now
      BY <1>1 DEF Now
    <2>2. /\ grid_nx' = Now'.nx /\ nx_q' = Now'.nx
          /\ desc' = [tpb |-> Now'.tpb, entry |-> entries'[Now'.prog]]
      BY <1>1, <1>4, <1>6, <2>1, Zenon
    <2> QED
      BY <1>4, <1>9, <2>2, Zenon DEF GridInv
  <1>11. RestInv'
    BY <1>1 DEF RestInv
  <1> QED
    BY <1>2, <1>4, <1>10, <1>11 DEF Agreed, DevicePart

\* What a file brings does not displace what the host has set.
LEMMA SeededKeeps ==
  ASSUME NEW bank, NEW kconst, kconst = <<>> \/ 0 \in DOMAIN bank
  PROVE  /\ LDC(Seeded(bank, kconst), 0) = LDC(bank, 0)
         /\ DOMAIN bank \subseteq DOMAIN Seeded(bank, kconst)
  <1> DEFINE new == 0 .. Len(kconst) - 1
             D == DOMAIN bank \cup new
             f == Seeded(bank, kconst)
  <1>1. DOMAIN f = D /\ \A k \in DOMAIN bank : f[k] = bank[k]
    BY DEF Seeded
  <1>2. kconst = <<>> => new = {}
    <2>1. Len(<<>>) = 0 /\ 0 .. 0 - 1 = {}
      OBVIOUS
    <2> QED
      BY <2>1
  <1> HIDE DEF new, f
  <1>3. 0 \in DOMAIN f <=> 0 \in DOMAIN bank
    BY <1>1, <1>2
  <1>4. DOMAIN bank \subseteq DOMAIN f
    BY <1>1
  <1>5. LDC(f, 0) = LDC(bank, 0)
    BY <1>1, <1>3 DEF LDC
  <1> QED
    BY <1>4, <1>5 DEF f

\* All blocks are over and the caches clean: memory is what Iss::run leaves.
LEMMA ReturnStep ==
  ASSUME HostInv, IInv, Agreed, Return
  PROVE  Agreed'
  <1> DEFINE c == Now
             p == Old.programs[c.prog]
             bank == Seeded(Old.bank, p.kconst)
             K(v) == Kernel(Words(p), p.entry, LDC(bank, 0), c.nx, v)
             M == [a \in Gmem |-> IF a < c.nx * c.tpb THEN K(Old.mem[a]) ELSE Old.mem[a]]
  <1>0. /\ EntriesInv /\ OwnerInv /\ LoadInv /\ EntryInv /\ BankInv /\ GoldenInv /\ StopInv
        /\ WordsInv /\ GridInv /\ call \in Nat \ {0} /\ Len(session.calls) \in Nat
    BY Parts
  <1>1. /\ waiting /\ grid_done /\ waiting' = FALSE /\ call' = call + 1 /\ at' = 0
        /\ UNCHANGED <<vars, deviceVars, grid_nx, session, entries, reads, stopped>>
    BY Zenon DEF Return, NextCall
  <1>2. /\ Doing("dispatch") /\ call \in 1 .. Len(session.calls) /\ c.op = "dispatch" /\ ~stopped
        /\ c = session.calls[call]
        /\ grid_nx = c.nx /\ nx_q = c.nx /\ c.nx \in Nat
        /\ desc.tpb = c.tpb /\ desc.entry = entries[c.prog]
        /\ c.tpb \in 0 .. BlockThreads /\ BlockThreads \in Nat
        /\ c.prog \in DOMAIN entries
        /\ \A j \in Loads(session, call - 1) :
             \/ session.calls[j].prog.kconst = <<>>
             \/ \E i \in 1 .. call - 1 : session.calls[i].op = "const"
    BY <1>1, Asked, Zenon
  <1>3. UNCHANGED <<imem, cbank, gmem, dirty, dstate>>
    BY <1>1 DEF deviceVars, vars, dispatchVars
  <1>4. dstate = "IDLE" /\ Active = {} /\ next_bidx = c.nx /\ dirty = NoWrite
    <2>1. dstate = "IDLE"
      BY <1>1 DEF IInv, PhaseInv
    <2> QED
      BY <1>0, <1>2, <2>1, UnitsAtRest DEF WordsInv
  <1>5. Old.mem = [a \in Gmem |-> Old.mem[a]] /\ reads = Old.reads /\ Gmem \subseteq Nat
    BY <1>0 DEF GoldenInv, Gmem
  <1>6. c.nx * c.tpb \in Nat /\ c.tpb \in Nat
    <2>1. c.tpb \in Nat /\ \A x, y \in Nat : x * y \in Nat
      BY <1>2
    <2> QED
      BY <1>2, <2>1
  \* The golden model's side.
  <1>7. Old' = State(Old.programs, bank, Old.reads, M)
    <2>1. /\ Old' = run(Old, c)
          /\ \A b, m : [Old EXCEPT !.bank = b, !.mem = m] = State(Old.programs, b, Old.reads, m)
      BY <1>0, <1>1, <1>2, GoldenGoes, Zenon
    <2>2. Old.mem = [a \in Gmem |-> Old.mem[a]] /\ Gmem \subseteq Nat /\ c.nx * c.tpb \in Nat
      BY <1>5, <1>6
    <2>3. run(Old, c) = Ran(Old, c, Gmem)
      <3> HIDE DEF c
      <3> QED
        BY <2>2, RunByThread
    <2>4. Ran(Old, c, Gmem) = [Old EXCEPT !.bank = bank, !.mem = M]
      BY Zenon DEF Ran
    <2> HIDE DEF bank, M
    <2> QED
      BY <2>1, <2>3, <2>4, Zenon
  <1>8. /\ Old'.programs = Old.programs /\ Old'.bank = bank
        /\ Old'.reads = Old.reads /\ Old'.mem = M
        /\ Old' = State(Old'.programs, Old'.bank, Old'.reads, Old'.mem)
    <2> HIDE DEF bank, M
    <2>1. HasFields(Old', Old.programs, bank, Old.reads, M)
      BY <1>7, StateFields
    <2> QED
      BY <2>1, Zenon DEF HasFields
  \* The program and its constant.
  <1>9. PICK k \in Loads(session, call - 1) :
          /\ p = session.calls[k].prog
          /\ entries[c.prog] = session.calls[k].off + session.calls[k].prog.entry
    BY <1>0, <1>2, Zenon DEF EntryInv, EntriesOf
  <1>10. /\ LDC(bank, 0) = cbank[0] /\ LDC(bank, 0) = LDC(Old.bank, 0)
         /\ DOMAIN Old.bank \subseteq DOMAIN bank
    <2>1. LDC(Old.bank, 0) = cbank[0]
          /\ ((\E i \in 1 .. call - 1 : session.calls[i].op = "const") => 0 \in DOMAIN Old.bank)
      BY <1>0, Zenon DEF BankInv, ConstantOf
    <2>2. p.kconst = <<>> \/ \E i \in 1 .. call - 1 : session.calls[i].op = "const"
      BY <1>2, <1>9, Zenon
    <2> HIDE DEF p
    <2> QED
      BY <2>1, <2>2, SeededKeeps, Zenon
  <1>11. \A v : Thread(v) = K(v)
    <2> DEFINE l == session.calls[k]
    <2>1. k \in 1 .. Len(session.calls) /\ l.op = "load"
      BY <1>0, <1>2 DEF Loads
    <2>2. /\ l.prog \in Program /\ l.off \in Nat
          /\ l.off .. l.off + Len(l.prog.code) - 1 \subseteq 0 .. ImemWords - 1
          /\ \E a \in l.prog.entry .. Len(l.prog.code) - 1 : l.prog.code[a + 1] = EXIT
      BY <1>0, <2>1, ProperLoad, Zenon
    <2>3. \A a \in 0 .. Len(l.prog.code) - 1 : imem[l.off + a] = l.prog.code[a + 1]
      BY <1>0, Zenon DEF LoadInv, InPlace, Placed
    <2>4. DOMAIN imem = 0 .. ImemWords - 1
      BY <1>0 DEF LoadInv
    <2> HIDE DEF l
    <2>5. Fetched(imem, l.off + l.prog.entry) = Fetched(Words(l.prog), l.prog.entry)
      <3> DEFINE q == l.prog
      <3>1. /\ q \in Program /\ l.off .. l.off + Len(q.code) - 1 \subseteq 0 .. ImemWords - 1
            /\ \A a \in 0 .. Len(q.code) - 1 : imem[l.off + a] = q.code[a + 1]
            /\ \E a \in q.entry .. Len(q.code) - 1 : q.code[a + 1] = EXIT
        BY <2>2, <2>3
      <3> HIDE DEF q
      <3>2. Fetched(imem, l.off + q.entry) = Fetched(Words(q), q.entry)
        BY <2>2, <2>4, <3>1, SameWords
      <3> QED
        BY <3>2 DEF q
    <2>6. p = l.prog /\ desc.entry = l.off + l.prog.entry
      BY <1>2, <1>9 DEF l
    <2> HIDE DEF p, bank, c
    <2>7. Fetched(imem, desc.entry) = Fetched(Words(p), p.entry)
      BY <2>5, <2>6
    <2>8. \A v : Kernel(imem, desc.entry, cbank[0], grid_nx, v)
                   = Kernel(Words(p), p.entry, cbank[0], grid_nx, v)
      BY <2>7, SameKernel
    <2>9. LDC(bank, 0) = cbank[0] /\ grid_nx = c.nx
      BY <1>2, <1>10
    <2> QED
      BY <2>8, <2>9, Zenon DEF Thread
  \* The device's side: all blocks have ended, and the caches keep nothing back.
  <1>12. \A a \in Nat : a \in OverWords <=> a < c.nx * c.tpb
    <2>1. Over = 0 .. c.nx - 1
      BY <1>4 DEF Over
    <2>2. Threads(c.tpb) = 0 .. c.tpb - 1
      BY <1>2 DEF Threads
    <2>3. OverWords = {b * c.tpb + t : b \in 0 .. c.nx - 1, t \in 0 .. c.tpb - 1}
      <3>1. OverWords = WordsOf(0 .. c.nx - 1, c.tpb)
        BY <1>2, <2>1 DEF OverWords
      <3> QED
        BY <2>2, <3>1 DEF WordsOf
    <2> DEFINE n == c.tpb
               m == c.nx
    <2>4. n \in Nat /\ m \in Nat /\ OverWords = BlockWords(m, n)
      BY <1>2, <1>6, <2>3 DEF BlockWords
    <2> HIDE DEF n, m
    <2>5. \A a \in Nat : a \in BlockWords(m, n) <=> a < m * n
      BY <2>4, WordsOfAllBlocks
    <2> QED
      BY <2>4, <2>5 DEF n, m
  <1>13. gmem = M
    <2>1. \A a \in Gmem : gmem[a] = IF a < c.nx * c.tpb THEN K(Old.mem[a]) ELSE Old.mem[a]
      <3> SUFFICES ASSUME NEW a \in Gmem
                   PROVE  gmem[a] = IF a < c.nx * c.tpb THEN K(Old.mem[a]) ELSE Old.mem[a]
        OBVIOUS
      <3>1. Shown(a) = IF a \in OverWords THEN Thread(Old.mem[a]) ELSE Old.mem[a]
        BY <1>0, <1>1 DEF GridInv
      <3>2. Shown(a) = gmem[a]
        BY <1>4 DEF Shown, NoWrite
      <3>3. a \in OverWords <=> a < c.nx * c.tpb
        BY <1>5, <1>12
      <3>4. Thread(Old.mem[a]) = K(Old.mem[a])
        BY <1>11
      <3> HIDE DEF K, c
      <3> QED
        BY <3>1, <3>2, <3>3, <3>4, Zenon
    <2>2. gmem = [a \in Gmem |-> gmem[a]]
      BY <1>0 DEF WordsInv
    <2> QED
      BY <2>1, <2>2, Zenon
  <1> HIDE DEF bank, K
  <1>14. M = [a \in Gmem |-> M[a]]
    OBVIOUS
  <1> HIDE DEF M, p
  <1>15. LoadInv' /\ EntryInv' /\ BankInv'
    <2>1. Now.op # "load" /\ Now.op # "const"
      BY <1>2
    <2>2. /\ UNCHANGED <<imem, session, cbank, entries>>
          /\ LDC(Old'.bank, 0) = LDC(Old.bank, 0) /\ DOMAIN Old.bank \subseteq DOMAIN Old'.bank
      BY <1>1, <1>3, <1>8, <1>10
    <2> QED
      BY <1>0, <1>1, <1>2, <1>8, <2>1, <2>2, LoadKept, EntryKept, BankKept
  <1>16. GoldenInv'
    BY <1>1, <1>5, <1>8, <1>14, Zenon DEF GoldenInv
  <1>17. StopInv'
    BY <1>1, <1>2 DEF StopInv
  <1>18. DevicePart'
    <2>1. ~waiting'
      BY <1>1
    <2>2. /\ dstate' = "IDLE" /\ gmem' = Old'.mem /\ dirty' = NoWrite
          /\ Old'.mem = [a \in Gmem |-> Old'.mem[a]]
      BY <1>3, <1>4, <1>8, <1>13, <1>14, Zenon
    <2> QED
      BY <2>1, <2>2, AtRest
  <1> QED
    BY <1>15, <1>16, <1>17, <1>18 DEF Agreed, HostPart

\* A file that was cut short stops the host before a word of it is written.
LEMMA FailsStep ==
  ASSUME HostInv, IInv, Agreed, LoadFails
  PROVE  Agreed'
  <1>0. EntriesInv /\ OwnerInv /\ LoadInv /\ HostPart /\ DevicePart
    BY Parts
  <1>1. /\ Doing("load") /\ ~load_gpubin(Now.file).ok /\ stopped' = TRUE
        /\ UNCHANGED <<vars, deviceVars, grid_nx, session, call, at>>
        /\ UNCHANGED <<entries, reads, waiting, timedOut, owner>>
    BY Zenon DEF LoadFails
  <1>2. call \in 1 .. Len(session.calls) /\ session.calls[call].op = "load"
    BY <1>0, <1>1, InCall DEF Now
  <1>3. ~Whole(Now)
    BY <1>0, <1>1, <1>2, LoadedWhole, Zenon DEF Now
  <1>4. at = 0
    BY <1>0, <1>3, Zenon DEF LoadInv
  <1>5. UNCHANGED <<imem, cbank, gmem, dirty>> /\ Old' = Old /\ Now' = Now
    BY <1>1, OldKept DEF deviceVars, Now
  <1>6. LoadInv'
    <2>1. InPlace(imem', session', call' - 1) /\ DOMAIN imem' = 0 .. ImemWords - 1
          /\ call' - 1 \in 0 .. Len(session'.calls) /\ at' = 0
      BY <1>0, <1>1, <1>4, <1>5 DEF LoadInv
    <2> QED
      BY <2>1 DEF LoadInv
  <1>7. EntryInv' /\ BankInv' /\ GoldenInv'
    BY <1>0, <1>1, <1>5, Zenon DEF HostPart, EntryInv, BankInv, GoldenInv
  <1>8. StopInv'
    <2>1. ~Whole(Now')
      BY <1>3, <1>5, Zenon
    <2> QED
      BY <2>1 DEF StopInv, Whole
  <1>9. DevicePart'
    <2>1. ~waiting /\ ~waiting'
      BY <1>0, <1>1, NotWaiting
    <2>2. dstate = "IDLE" /\ gmem = Old.mem /\ dirty = NoWrite /\ Old.mem = [a \in Gmem |-> Old.mem[a]]
      BY <1>0, <2>1 DEF DevicePart, RestInv, WordsInv, HostPart, GoldenInv
    <2>3. dstate' = dstate
      BY <1>1 DEF vars, dispatchVars
    <2> QED
      BY <1>5, <2>1, <2>2, <2>3, AtRest, Zenon
  <1> QED
    BY <1>6, <1>7, <1>8, <1>9 DEF Agreed, HostPart

\* The session is over.
LEMMA EndedStep ==
  ASSUME Agreed, UNCHANGED allVars
  PROVE  Agreed'
  <1>1. /\ UNCHANGED <<imem, cbank, gmem, dirty, grid_nx>>
        /\ UNCHANGED <<session, call, at, entries, reads, waiting, stopped>>
        /\ UNCHANGED <<dstate, desc, nx_q, next_bidx, cu_bidx, cu_start, running, grid_done, l2_report>>
    BY DEF allVars, hostVars, deviceVars, callVars, vars, dispatchVars, unitVars
  <1>2. HostPart' /\ Old' = Old
    BY <1>1, StandStill DEF Agreed
  <1>3. OverWords' = OverWords /\ Now' = Now
    BY <1>1, Zenon DEF OverWords, Over, Active, Now
  <1>4. WordsInv' /\ RestInv'
    BY <1>1, <1>2, Zenon DEF Agreed, DevicePart, WordsInv, RestInv, NoWrite
  <1>5. \A a \in Gmem : Shown(a)' = Shown(a)
    BY <1>1, Zenon DEF Shown
  <1>6. \A a \in Gmem : Thread(Old.mem[a])' = Thread(Old.mem[a])
    BY <1>1, <1>2, Zenon DEF Thread
  <1>7. GridInv'
    <2> SUFFICES ASSUME waiting'
                 PROVE  GridInv'
      BY Zenon DEF GridInv
    <2>1. /\ grid_nx' = Now'.nx /\ nx_q' = Now'.nx
          /\ desc' = [tpb |-> Now'.tpb, entry |-> entries'[Now'.prog]]
          /\ dstate' = "IDLE" => grid_done'
      BY <1>1, <1>3 DEF Agreed, DevicePart, GridInv
    <2>2. \A a \in Gmem : Shown(a) = IF a \in OverWords THEN Thread(Old.mem[a]) ELSE Old.mem[a]
      BY <1>1 DEF Agreed, DevicePart, GridInv
    <2>3. \A a \in Gmem : Shown(a)' = IF a \in OverWords' THEN Thread(Old.mem[a])' ELSE Old'.mem[a]
      BY <1>2, <1>3, <1>5, <1>6, <2>2
    <2> QED
      BY <2>1, <2>3, Zenon DEF GridInv
  <1> QED
    BY <1>2, <1>4, <1>7 DEF Agreed, DevicePart

\* All steps but the host's giving up.
LEMMA AgreedStep ==
  ASSUME HostInv, IInv, BidxInv, Agreed, [HostNext]_allVars, timedOut' = {}
  PROVE  Agreed'
  <1>1. ~GiveUp
    BY DEF GiveUp
  <1>2. Ended => UNCHANGED allVars
    BY Zenon DEF Ended
  <1>3. \/ LoadWord \/ Loaded \/ LoadFails \/ setConst \/ memWrite \/ memRead \/ dispatch
        \/ Await \/ Return \/ UNCHANGED allVars
    BY <1>1, <1>2, Zenon DEF HostNext, Calls
  <1> QED
    BY <1>3, LoadWordStep, LoadedStep, FailsStep, ConstStep, WriteStep, ReadStep, DispatchStep,
       AwaitStep, ReturnStep, EndedStep, Zenon

\* A host that gives up has done so for good, and nothing is claimed of it.
LEMMA SessionStep ==
  ASSUME SessionInv, [HostNext]_allVars
  PROVE  SessionInv'
  <1>0. HostInv /\ IInv /\ BidxInv /\ EntriesInv
    BY DEF SessionInv, HostInv
  <1>1. [Next]_vars
    BY <1>0, DeviceStep
  <1>2. IInv' /\ BidxInv'
    BY <1>0, <1>1, Preserved, BidxStep
  <1>3. HostInv'
    BY <1>0, OwnerStep, EntriesStep DEF HostInv
  <1>4. timedOut' = {} => timedOut = {}
    <2>1. timedOut' = timedOut \/ timedOut' = timedOut \cup {call}
      BY Zenon DEF HostNext, Calls, LoadWord, Loaded, LoadFails, setConst, memWrite, memRead, dispatch,
           Await, Return, GiveUp, Ended, allVars, hostVars, callVars
    <2> QED
      BY <2>1
  <1>5. timedOut' = {} => Agreed'
    BY <1>0, <1>4, AgreedStep, Zenon DEF SessionInv
  <1> QED
    BY <1>2, <1>3, <1>5, Zenon DEF SessionInv

\* The device and the golden model begin with the same memory and nothing loaded.
LEMMA SessionInitially == HostInit => SessionInv
  <1> SUFFICES ASSUME HostInit PROVE SessionInv
    OBVIOUS
  <1>1. /\ Init
        /\ imem = [a \in 0 .. ImemWords - 1 |-> EXIT] /\ cbank = [i \in 0 .. CbankWords - 1 |-> 0]
        /\ gmem = [a \in Gmem |-> 0] /\ dirty = NoWrite /\ grid_nx = 0
        /\ session \in Sessions /\ call = 1 /\ at = 0 /\ entries = <<>> /\ reads = <<>>
        /\ waiting = FALSE /\ timedOut = {} /\ stopped = FALSE /\ owner = 0
    BY Zenon DEF HostInit, Gmem
  <1>2. HostInv /\ IInv /\ BidxInv
    <2>1. Active = {}
      BY <1>1 DEF Init, Active
    <2> QED
      BY <1>1, <2>1, HostInitially, Initially DEF BidxInv
  <1>3. EntriesInv /\ call - 1 = 0 /\ Len(session.calls) \in Nat
    BY <1>1, <1>2, CallsCounted DEF HostInv
  <1>4. Old = Begin
    <2>1. Old = After(session.calls, 0)
      BY <1>3 DEF Old
    <2>2. 0 \in Nat
      OBVIOUS
    <2> QED
      BY <2>1, <2>2, AfterCalls
  <1>5. Loads(session, 0) = {}
    BY DEF Loads
  <1>6. LoadInv
    <2>1. InPlace(imem, session, 0)
      BY <1>5 DEF InPlace
    <2> QED
      BY <1>1, <1>3, <2>1 DEF LoadInv
  <1>7. EntryInv
    <2>1. <<>> \in Seq(Program) /\ Len(<<>>) = Len(entries) /\ DOMAIN entries = {}
      BY <1>1
    <2>2. Old.programs = <<>>
      BY <1>4 DEF Begin
    <2> QED
      BY <1>3, <2>1, <2>2 DEF EntryInv, EntriesOf
  <1>8. BankInv
    <2>1. Old.bank = [i \in {} |-> 0]
      BY <1>4 DEF Begin
    <2>2. LDC(Old.bank, 0) = 0
      BY <2>1 DEF LDC
    <2>3. CbankWords \in Nat \ {0}
      BY ProperAssumption
    <2>4. cbank[0] = 0 /\ DOMAIN cbank = 0 .. CbankWords - 1
      BY <1>1, <2>3
    <2> QED
      BY <1>3, <2>2, <2>4 DEF BankInv, ConstantOf
  <1>9. GoldenInv
    BY <1>1, <1>4 DEF GoldenInv, State, Begin
  <1>10. StopInv /\ GridInv /\ RestInv
    BY <1>1, <1>4 DEF StopInv, GridInv, RestInv, Begin, Init
  <1>11. WordsInv
    BY <1>1 DEF WordsInv, NoWrite, Init
  <1> QED
    BY <1>2, <1>6, <1>7, <1>8, <1>9, <1>10, <1>11 DEF SessionInv, Agreed, HostPart, DevicePart

\* The invariant of a session holds throughout.
LEMMA SessionInvariant == HostSpec => []SessionInv
  BY SessionInitially, SessionStep, PTL DEF HostSpec

\* It says what the property asks.
LEMMA AgreesInSession ==
  ASSUME SessionInv
  PROVE  SessionAgrees
  <1> SUFFICES ASSUME timedOut = {} PROVE SessionAgrees
    BY DEF SessionAgrees
  <1>0. /\ EntriesInv /\ LoadInv /\ GoldenInv /\ StopInv /\ WordsInv
        /\ call \in Nat \ {0} /\ Len(session.calls) \in Nat
    BY Parts DEF SessionInv
  <1>1. reads = Golden(call - 1).reads
    <2>1. DOMAIN gmem = Gmem /\ call - 1 \in Nat
      BY <1>0 DEF WordsInv
    <2>2. Golden(call - 1) = Old
      BY <2>1, GoldenIsAfter DEF Old
    <2> QED
      BY <1>0, <2>2 DEF GoldenInv
  <1>2. \A k \in 1 .. call - 1 : Whole(session.calls[k])
    <2> SUFFICES ASSUME NEW k \in 1 .. call - 1 PROVE Whole(session.calls[k])
      OBVIOUS
    <2>1. CASE session.calls[k].op = "load"
      <3>1. k \in Loads(session, call - 1)
        BY <2>1 DEF Loads
      <3> QED
        BY <1>0, <3>1, Zenon DEF LoadInv, InPlace
    <2>2. CASE session.calls[k].op # "load"
      BY <2>2 DEF Whole
    <2> QED
      BY <2>1, <2>2
  <1>3. stopped => ~Whole(session.calls[call])
    BY <1>0 DEF StopInv, Now
  <1> QED
    BY <1>1, <1>2, <1>3, Zenon DEF SessionAgrees

\* Whatever legal session a host plays, with any number of units, blocks, threads and any order
\* in which they end, every memRead returns what the golden model computes, as long as the
\* host has not given up on a grid.
THEOREM SessionHolds == HostSpec => []SessionAgrees
  BY SessionInvariant, AgreesInSession, PTL
=============================================================================
