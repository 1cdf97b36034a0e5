------------------------------ MODULE HostDevice ------------------------------
(***************************************************************************)
(* A host at the ports of gpu_top: the calls of SirionDevice, in any order *)
(* a program makes them, and the one order that sirion_run makes. A step   *)
(* is one tick of the simulation, in which the dispatcher, the units and   *)
(* the caches (CtaDispatch) take a clock, or a read that takes none. The   *)
(* units run a kernel that depends on all a host provides: its code, a     *)
(* constant, the size of the grid and the words it works on.               *)
(***************************************************************************)
EXTENDS CtaDispatch, GpuBin

CONSTANTS ImemWords, CbankWords, GmemWords,
          BlockThreads,     \* NUM_WARPS * WARP_SIZE
          Sessions          \* what hosts do

LOCAL INSTANCE SequencesExt
LOCAL INSTANCE FiniteSetsExt

EXIT == 0

VARIABLES
  imem, cbank, gmem,        \* of the device
  dirty,                    \* words that only the caches hold
  grid_nx,                  \* the port
  session, call, at,        \* the host's calls, the one it is in, and how far
  entries, reads,           \* what loadProgram and memRead returned
  waiting, timedOut, stopped,
  owner                     \* the call whose launch was taken last
deviceVars == <<imem, cbank, gmem, dirty>>
callVars   == <<session, call, at, entries, reads, waiting, timedOut, stopped, owner>>
hostVars   == <<deviceVars, callVars, grid_nx>>
allVars    == <<vars, hostVars>>

-----------------------------------------------------------------------------
\* A kernel is fetched from its entry to its EXIT; each of its threads takes the word of
\* its number and adds to it.
Fetched(words, entry) ==
  {<<a - entry, words[a]>> : a \in {b \in DOMAIN words :
     b >= entry /\ \A c \in entry .. b - 1 : words[c] # EXIT}}
Kernel(words, entry, const, nx, old) ==
  old + nx + const * MapThenSumSet(LAMBDA w : (w[1] + 1) * w[2], Fetched(words, entry))

Overlay(memory, over) == [a \in DOMAIN memory |-> IF a \in DOMAIN over THEN over[a] ELSE memory[a]]

\* The words of a block: only threads that a warp exists for are run.
Threads(tpb) == 0 .. (IF tpb < BlockThreads THEN tpb ELSE BlockThreads) - 1
Stored(over) ==
  {cu_bidx[c] * desc.tpb + t : c \in over, t \in Threads(desc.tpb)} \cap DOMAIN gmem

\* What the blocks that end on a clock have stored.
BlocksEnd(over) ==
  LET view == Overlay(gmem, dirty)
  IN  [a \in DOMAIN dirty \cup Stored(over) |->
         IF a \in Stored(over) THEN Kernel(imem, desc.entry, cbank[0], grid_nx, view[a])
         ELSE dirty[a]]

\* Nothing is written through the ports.
Quiet == UNCHANGED <<imem, cbank>>
NoWrite == [a \in {} |-> 0]

\* One clock: launch is the descriptor of a launch, if one is on the ports, and put what the
\* host writes to memory. A host write displaces the write-back of the same clock.
SimTick(launch, put) ==
  \E over \in SUBSET running, rep \in SUBSET flushing, l2rep \in BOOLEAN :
    \E lost \in SUBSET (IF DOMAIN put = {} THEN {} ELSE DOMAIN dirty) :
      /\ Tick(over, rep, l2rep)
      /\ \/ dstate = "IDLE" /\ launch = {} /\ Wait
         \/ dstate = "IDLE" /\ \E d \in launch : Launch(grid_nx', d)
         \/ Busy
      /\ dirty' = IF l2rep THEN NoWrite ELSE BlocksEnd(over)
      /\ gmem' = Overlay(Overlay(gmem, IF l2rep THEN [a \in DOMAIN dirty \ lost |-> dirty[a]]
                                       ELSE NoWrite), put)

-----------------------------------------------------------------------------
Now      == session.calls[call]
Doing(o) == ~stopped /\ call <= Len(session.calls) /\ Now.op = o
NextCall == call' = call + 1 /\ at' = 0

\* Fault: a program's entry is not moved with the program.
Entry_Unmoved(bin, off) == bin.entry
Entry(bin, off) == off + bin.entry

\* Hosts dispatch programs they have loaded.
Loads(s, n) == {k \in 1 .. n : s.calls[k].op = "load"}
ASSUME SessionsAssumption ==
  \A s \in Sessions :
    /\ Len(s.calls) \in Nat
    /\ \A k \in 1 .. Len(s.calls) : s.calls[k].op = "dispatch" =>
         /\ s.calls[k].nx \in GridSizes
         /\ s.calls[k].prog \in 1 .. Cardinality(Loads(s, k - 1))
         /\ \A j \in Loads(s, k - 1) :
              [tpb |-> s.calls[k].tpb, entry |-> Entry(load_gpubin(s.calls[j].file), s.calls[j].off)]
                \in Descriptors

\* loadProgram: a word a tick, if the file could be read.
LoadWord ==
  LET bin == load_gpubin(Now.file) IN
  /\ Doing("load") /\ bin.ok /\ at < Len(bin.code)
  /\ imem' = [imem EXCEPT ![(Now.off + at) % ImemWords] = bin.code[at + 1]]
  /\ at' = at + 1
  /\ SimTick({}, NoWrite)
  /\ UNCHANGED <<cbank, grid_nx, session, call, entries, reads, waiting, timedOut, stopped, owner>>

Loaded ==
  LET bin == load_gpubin(Now.file) IN
  /\ Doing("load") /\ bin.ok /\ at = Len(bin.code)
  /\ entries' = Append(entries, Entry(bin, Now.off))
  /\ NextCall
  /\ UNCHANGED <<vars, deviceVars, grid_nx, session, reads, waiting, timedOut, stopped, owner>>

LoadFails ==
  /\ Doing("load") /\ ~load_gpubin(Now.file).ok
  /\ stopped' = TRUE
  /\ UNCHANGED <<vars, deviceVars, grid_nx, session, call, at, entries, reads, waiting, timedOut, owner>>

setConst ==
  /\ Doing("const")
  /\ cbank' = [cbank EXCEPT ![Now.idx % CbankWords] = Now.val]
  /\ NextCall /\ SimTick({}, NoWrite)
  /\ UNCHANGED <<imem, grid_nx, session, entries, reads, waiting, timedOut, stopped, owner>>

\* Fault: the byte address is taken for the word's.
WordAddress_Byte(byte) == byte % GmemWords
WordAddress(byte) == (byte \div 4) % GmemWords

memWrite ==
  /\ Doing("write")
  /\ NextCall /\ Quiet
  /\ SimTick({}, [a \in {WordAddress(Now.byte)} |-> Now.val])
  /\ UNCHANGED <<grid_nx, session, entries, reads, waiting, timedOut, stopped, owner>>

\* memRead: the memory is read beside the caches, without a clock.
memRead ==
  /\ Doing("read")
  /\ reads' = Append(reads, gmem[WordAddress(Now.byte)])
  /\ NextCall
  /\ UNCHANGED <<vars, deviceVars, grid_nx, session, entries, waiting, timedOut, stopped, owner>>

\* dispatch: one tick with launch up, which a busy device does not see, and then ticks until
\* grid_done is up or the host has waited long enough.
dispatch ==
  /\ Doing("dispatch") /\ ~waiting
  /\ grid_nx' = Now.nx /\ waiting' = TRUE
  /\ owner' = IF dstate = "IDLE" THEN call ELSE owner
  /\ Quiet /\ SimTick({[tpb |-> Now.tpb, entry |-> entries[Now.prog]]}, NoWrite)
  /\ UNCHANGED <<session, call, at, entries, reads, timedOut, stopped>>

Await ==
  /\ waiting /\ ~grid_done
  /\ Quiet /\ SimTick({}, NoWrite)
  /\ UNCHANGED <<callVars, grid_nx>>

Return ==
  /\ waiting /\ grid_done
  /\ waiting' = FALSE /\ NextCall
  /\ UNCHANGED <<vars, deviceVars, grid_nx, session, entries, reads, timedOut, stopped, owner>>

\* The wait is over without an answer: SirionDevice goes on and sirion_run does not.
GiveUp ==
  /\ waiting /\ ~grid_done /\ session.impatient
  /\ waiting' = FALSE /\ timedOut' = timedOut \cup {call} /\ stopped' = session.strict
  /\ NextCall
  /\ UNCHANGED <<vars, deviceVars, grid_nx, session, entries, reads, owner>>

Ended == (stopped \/ call > Len(session.calls)) /\ UNCHANGED allVars

-----------------------------------------------------------------------------
\* The constructor resets the device; reset clears neither memory.
HostInit ==
  /\ Init
  /\ imem = [a \in 0 .. ImemWords - 1 |-> EXIT] /\ cbank = [i \in 0 .. CbankWords - 1 |-> 0]
  /\ gmem = [a \in 0 .. GmemWords - 1 |-> 0] /\ dirty = NoWrite /\ grid_nx = 0
  /\ session \in Sessions /\ call = 1 /\ at = 0 /\ entries = <<>> /\ reads = <<>>
  /\ waiting = FALSE /\ timedOut = {} /\ stopped = FALSE /\ owner = 0

Calls == LoadWord \/ Loaded \/ LoadFails \/ setConst \/ memWrite \/ memRead \/ dispatch
           \/ Await \/ Return
HostNext == Calls \/ GiveUp \/ Ended
HostSpec == HostInit /\ [][HostNext]_allVars

\* The host goes on, a block that runs ends (Completes in CuCore), and so does a walk.
HostFairSpec ==
  /\ HostSpec /\ WF_allVars(Calls)
  /\ \A c \in CUs : /\ WF_allVars(Calls /\ c \in running \ running')
                    /\ WF_allVars(Calls /\ c \in reports')
  /\ WF_allVars(Calls /\ l2_report')

\* A dispatch comes back, whether the device took its launch or not.
Returns == waiting ~> ~waiting

-----------------------------------------------------------------------------
\* sirion_run makes of its options the calls of one session.
Load(p, lost, off) == [op |-> "load", prog |-> p, off |-> off,
                       file |-> LET f == write_gpubin(p) IN SubSeq(f, 1, Len(f) - lost)]
Const(c)  == [op |-> "const", idx |-> c[1], val |-> c[2]]
Store(s)  == [op |-> "write", byte |-> s[1], val |-> s[2]]
Fill(f)   == [k \in 1 .. f[2] |-> Store(<<f[1] + 4 * (k - 1), f[3] + f[4] * (k - 1)>>)]
Read(b)   == [op |-> "read", byte |-> b]
Dump(d)   == [k \in 1 .. d[2] |-> Read(d[1] + 4 * (k - 1))]
Call(nx, tpb, p) == [op |-> "dispatch", nx |-> nx, tpb |-> tpb, prog |-> p]

Each(F(_), s) == [i \in DOMAIN s |-> F(s[i])]
main(o) ==
  [strict |-> TRUE, impatient |-> TRUE,
   calls |-> <<Load(o.prog, o.lost, 0)>> \o Each(Const, o.consts) \o Each(Store, o.stores)
               \o FlattenSeq(Each(Fill, o.fills)) \o <<Call(o.grid, o.tpb, 1)>>
               \o FlattenSeq(Each(Dump, o.dumps))]
================================================================================
