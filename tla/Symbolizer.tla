------------------------------ MODULE Symbolizer ------------------------------
\* deploy/crash-collector: which functions were running, from a minidump.  A
\* machine calls, enters and leaves functions; at every step it may crash, and the
\* operators below read the dump.  The stack is a sequence, its last element lies
\* lowest in memory: rsp is its length, "rsp + 8" is rsp - 1.
EXTENDS Naturals, Sequences, FiniteSets, Folds, Functions, SequencesExt, FiniteSetsExt

CONSTANTS
  Code,           \* per function: [module, at, prolog, frame, info]: its module and rva, its
                  \* prolog, whether it keeps a frame pointer and whether .pdata lists it
  Selected,       \* the modules whose PE is given (--dll, --dll2)
  SyDumps,        \* what the dumps hold: records of exc, thread and stack
  MaxFrames, ScanCap,
  SyDepth         \* bound: words of stack

Start == "main"
\* The prologs covered: one saves rbp once at most, in the words it has just allocated,
\* and may then make rbp the frame pointer.  The x64 calling convention allows more,
\* left out here: saves in the caller's home space, and other frame registers, at which
\* the walk stops as at a function without unwind data (symbolize.py:469-471).
Saving == {"push", "save"}
ASSUME PrologsFit ==
  /\ Start \in DOMAIN Code /\ {"number", "garbage", "none"} \cap DOMAIN Code = {} /\ ScanCap \in Nat
  /\ \A f \in DOMAIN Code :
       /\ Code[f].at \in Nat /\ Code[f].prolog \in Seq([op : {"push", "alloc", "set", "save"}, n : Nat])
       /\ \A k \in DOMAIN Code[f].prolog : Code[f].prolog[k].op = "save" =>
            \E j \in 1 .. (k - 1) :
              /\ Code[f].prolog[j].op = "alloc" /\ Code[f].prolog[k].n < Code[f].prolog[j].n
              /\ \A i \in (j + 1) .. (k - 1) : Code[f].prolog[i].op \in {"save", "set"}
ASSUME FramesFit ==
  \A f \in DOMAIN Code :
    LET Op(k) == Code[f].prolog[k].op
        steps == DOMAIN Code[f].prolog IN
    /\ \A i, k \in steps : Op(i) \in Saving /\ Op(k) \in Saving => i = k
    /\ \A i, k \in steps : Op(i) = "set" /\ Op(k) = "set" => i = k
    /\ \A k \in steps : Op(k) = "set" => \E i \in 1 .. (k - 1) : Op(i) \in Saving
    /\ Code[f].frame = \E k \in steps : Op(k) = "set"
\* The modules given are the game's and the bridge's, never Wine's own.
ASSUME NtdllIsNotGiven == "ntdll" \notin DOMAIN Code
ASSUME FramesAreTaken == MaxFrames \in Nat \ {0}

VARIABLES
  pc,             \* where the processor is: a function and how much of its prolog ran
  rbp,
  stack,          \* words: return addresses, saved registers, data
  calls,          \* history: per active call, innermost first: where it returns to, the stack and rbp it found
  dump            \* what a dump would hold
syVars == <<pc, rbp, stack, calls, dump>>

\* A prolog's steps: push rbp; sub rsp, one or two words; lea rbp, [rsp + n words];
\* mov [rsp + n words], rbp.
Pushes == [op |-> "push", n |-> 0]
Allocs(n) == [op |-> "alloc", n |-> n]
SetsFrame(n) == [op |-> "set", n |-> n]
Saves(n) == [op |-> "save", n |-> n]

\* A word and an address are both records [f, n]: place n of function f, or a number.
Number(n) == [f |-> "number", n |-> n]
Place(f, n) == [f |-> f, n |-> n]
Garbage == Place("garbage", 0)
InCode(w) == w.f \in DOMAIN Code
Body(f) == Place(f, Len(Code[f].prolog) + 1)
InProlog(w) == InCode(w) /\ w.n < Len(Code[w.f].prolog)

SyInit ==
  /\ pc = Place(Start, 0) /\ rbp = 0 /\ stack = <<Number(0)>>
  /\ calls = <<[back |-> Number(0), rsp |-> 1, rbp |-> 0]>> /\ dump \in SyDumps
-----------------------------------------------------------------------------
\* The machine.
PrologStep ==
  LET step == Code[pc.f].prolog[pc.n + 1] IN
  /\ InProlog(pc) /\ pc' = [pc EXCEPT !.n = @ + 1]
  /\ stack' = CASE step.op = "push" -> Append(stack, Number(rbp))
                [] step.op = "alloc" -> stack \o [i \in 1 .. step.n |-> Number(99)]
                [] step.op = "save" -> [stack EXCEPT ![Len(stack) - step.n] = Number(rbp)]
                [] OTHER -> stack
  /\ rbp' = IF step.op = "set" THEN Len(stack) - step.n ELSE rbp
  /\ UNCHANGED <<calls, dump>>

Running == InCode(pc) /\ ~InProlog(pc)
SavesRbp(f) == \E i \in DOMAIN Code[f].prolog : Code[f].prolog[i].op \in Saving
\* In its body a function with a frame pointer moves rsp (alloca), and one that
\* saved rbp for its own use changes it.
Alloca ==
  /\ Running /\ Code[pc.f].frame /\ Len(stack) < SyDepth /\ stack' = Append(stack, Number(99))
  /\ UNCHANGED <<pc, rbp, calls, dump>>
UseRbp ==
  /\ Running /\ ~Code[pc.f].frame /\ SavesRbp(pc.f) /\ rbp # 99 /\ rbp' = 99
  /\ UNCHANGED <<pc, stack, calls, dump>>
CallTo(where) ==
  /\ Running /\ Len(stack) < SyDepth
  /\ stack' = Append(stack, Body(pc.f)) /\ pc' = where
  /\ calls' = <<[back |-> Body(pc.f), rsp |-> Len(stack'), rbp |-> rbp]>> \o calls
  /\ UNCHANGED <<rbp, dump>>
CallFunction == \E f \in DOMAIN Code \ {Start} : CallTo(Place(f, 0))
CallGarbage == CallTo(Garbage)
ReturnBack ==
  /\ Running /\ Len(calls) > 1
  /\ pc' = calls[1].back /\ stack' = SubSeq(stack, 1, calls[1].rsp - 1)
  /\ rbp' = calls[1].rbp /\ calls' = Tail(calls)
  /\ UNCHANGED dump
SyNext == PrologStep \/ Alloca \/ UseRbp \/ CallFunction \/ CallGarbage \/ ReturnBack
SySpec == SyInit /\ [][SyNext]_syVars
-----------------------------------------------------------------------------
\* fault_regs: the context of the exception stream, else that of the thread list,
\* which under Wine is often the exception dispatcher's, else nothing.
Dispatcher == [pc |-> Place("ntdll", 0), rsp |-> 1, rbp |-> 0]
AtFault == [pc |-> pc, rsp |-> Len(stack), rbp |-> rbp]
NoWord == Place("none", 0)
NoRegs == [pc |-> NoWord, rsp |-> 0, rbp |-> 0]
ThreadContext ==
  CASE dump.thread = "fault" -> AtFault [] dump.thread = "dispatcher" -> Dispatcher [] OTHER -> NoRegs
ExcContext == IF dump.exc = "full" THEN AtFault ELSE NoRegs
FaultRegs == IF dump.exc = "full" THEN AtFault ELSE ThreadContext
Address == IF dump.exc = "none" THEN NoWord ELSE pc

\* read_stack: within the ranges of the faulting thread's stack, else the memory list.
ReadU64(at) == IF dump.stack # "missing" /\ at \in DOMAIN stack THEN stack[at] ELSE NoWord
Readable(w) == w \notin {NoWord, Number(0)}
Restored(word, old) == IF word = NoWord THEN old ELSE word.n
\* _module_for is given the selected modules only.
ModuleFor(w) == IF InCode(w) /\ Code[w.f].module \in Selected THEN Code[w.f].module ELSE "none"

\* parse_pe_unwind: what the PE's exception directory says of the function.
HasUnwindData(w) == Code[w.f].info

\* _apply_unwind: the codes undo the prolog from its end; those of steps that have
\* not run yet are skipped (bug: none is).
Undo(regs, step) ==
  CASE step.op = "push" -> [rsp |-> regs.rsp - 1, rbp |-> Restored(ReadU64(regs.rsp), regs.rbp)]
    [] step.op = "alloc" -> [regs EXCEPT !.rsp = @ - step.n]
    [] step.op = "set" -> [regs EXCEPT !.rsp = regs.rbp + step.n]
    [] OTHER -> [regs EXCEPT !.rbp = Restored(ReadU64(regs.rsp - step.n), @)]
WholeProlog(w) == Code[w.f].prolog
DoneProlog(w) == IF InProlog(w) THEN SubSeq(Code[w.f].prolog, 1, w.n) ELSE Code[w.f].prolog
ApplyUnwind(w, regs) == FoldLeft(Undo, regs, Reverse(DoneProlog(w)))

\* x64_unwind: an address in no selected module is a jump to garbage: its return
\* address is at rsp; one in a function without unwind data ends the walk.
UnwindFrame(was) ==
  LET known == ModuleFor(was.at) # "none"
      regs == IF known THEN ApplyUnwind(was.at, was.regs) ELSE was.regs
      back == ReadU64(regs.rsp)
      ends == was.at = NoWord \/ (known /\ ~HasUnwindData(was.at)) \/ ~Readable(back)
  IN IF ends THEN [was EXCEPT !.at = NoWord]
     ELSE [at |-> back, regs |-> [regs EXCEPT !.rsp = @ - 1], out |-> Append(was.out, back)]
FromFault == [at |-> Address, regs |-> [rsp |-> FaultRegs.rsp, rbp |-> FaultRegs.rbp], out |-> <<>>]
X64Unwind ==
  LET walk[k \in 0 .. MaxFrames] == IF k = 0 THEN FromFault ELSE UnwindFrame(walk[k - 1])
  IN walk[MaxFrames].out

\* The walk along saved frame pointers, which must rise.
FollowRbp(was) ==
  LET saved == ReadU64(was.cur)
      rises == saved.f = "number" /\ saved.n \in 1 .. (was.cur - 1)
  IN IF ~(was.cur \in 2 .. Len(stack)) \/ dump.stack = "missing" THEN [was EXCEPT !.cur = 0]
     ELSE [cur |-> IF rises THEN saved.n ELSE 0, out |-> Append(was.out, ReadU64(was.cur - 1))]
RbpWalk ==
  LET walk[k \in 0 .. MaxFrames] == IF k = 0 THEN [cur |-> FaultRegs.rbp, out |-> <<>>] ELSE FollowRbp(walk[k - 1])
  IN walk[MaxFrames].out

\* collect_frames: fault, contexts, then the walk; an address twice counts once, and
\* one outside the selected modules not at all.
AddFrame(seen, w) == IF ModuleFor(w) = "none" \/ w \in Range(seen) THEN seen ELSE Append(seen, w)
Once(words) == FoldLeft(AddFrame, <<>>, words)
UnwindMethod == IF X64Unwind # <<>> THEN "x64" ELSE IF RbpWalk # <<>> THEN "rbp" ELSE "none"
Frames ==
  LET all == Once(<<Address, ExcContext.pc, ThreadContext.pc>> \o
                  (IF UnwindMethod = "x64" THEN X64Unwind ELSE RbpWalk))
  IN SubSeq(all, 1, Min({MaxFrames, Len(all)}))

\* minidump_meta.py: the words of the stack that lie in the fault's module, of
\* those the ScanCap with the lowest rva; nothing without an exception stream.
ScanStack ==
  IF dump.exc = "none" \/ dump.stack = "missing" \/ ~InCode(pc) THEN {}
  ELSE {w \in Range(stack) : InCode(w) /\ Code[w.f].module = Code[pc.f].module}
Rva(w) == Code[w.f].at + w.n
StackRvas == {w \in ScanStack : Cardinality({v \in ScanStack : Rva(v) < Rva(w)}) < ScanCap}
-----------------------------------------------------------------------------
TrueCallers == [i \in 1 .. (Len(calls) - 1) |-> calls[i].back]
\* Up to where the unwind data reaches: the calls whose callee, and all callees
\* before it, are in a selected module and have it, or are the garbage jumped to.
Covered(w) == w = Garbage \/ (ModuleFor(w) # "none" /\ HasUnwindData(w))
Reach ==
  CHOOSE k \in 0 .. Len(TrueCallers) :
    /\ \A i \in 1 .. k : Covered(IF i = 1 THEN pc ELSE TrueCallers[i - 1])
    /\ k = Len(TrueCallers) \/ ~Covered(IF k = 0 THEN pc ELSE TrueCallers[k])

\* With the context and the stack of the crash, the unwinder tells the true callers
\* in order, innermost first, wherever in a prolog or a body the crash was, as far
\* as the unwind data reaches (symbolize.py:447-540).
UnwindTellsCallers ==
  dump.exc = "full" /\ dump.stack # "missing" =>
    LET k == Min({Reach, MaxFrames}) IN
    Len(X64Unwind) >= k /\ SubSeq(X64Unwind, 1, k) = SubSeq(TrueCallers, 1, k)

\* The report starts with the function that crashed, whatever the dump lacks, names
\* none twice, and with whole data it misses no caller but for its length.
FramesTellCrash ==
  /\ dump.exc # "none" /\ ModuleFor(pc) # "none" => Frames # <<>> /\ Frames[1] = pc
  /\ Cardinality(Range(Frames)) = Len(Frames)
  /\ dump.exc = "full" /\ dump.stack # "missing" /\ Reach = Len(TrueCallers) /\ Len(TrueCallers) < MaxFrames =>
       {w \in Range(TrueCallers) : ModuleFor(w) # "none"} \subseteq Range(Frames)
\* So does the scan for meta.json, of the crash's module, unless its cap cuts it.
ScanTellsCallers ==
  dump.exc = "full" /\ dump.stack # "missing" /\ InCode(pc) /\ Cardinality(ScanStack) <= ScanCap =>
    {w \in Range(TrueCallers) : Code[w.f].module = Code[pc.f].module} \subseteq StackRvas
ReportTellsCrash == FramesTellCrash /\ ScanTellsCallers

\* The reports of a crash tell the callers as far as the dump does.
CrashIsTold == UnwindTellsCallers /\ ReportTellsCrash
=============================================================================
