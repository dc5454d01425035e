----------------------------- MODULE FrameBuilder -----------------------------
(***************************************************************************)
(* FrameBuilder::build (aras/src/protocols/websocket.rs): the fragmentation *)
(* of one websocket.send event into frames of at most max_frame_size bytes. *)
(* Data are abstracted to their length and a slice of them to the offsets   *)
(* where it begins and ends; the while loop of split_bytes is one action    *)
(* per iteration.                                                           *)
(***************************************************************************)
EXTENDS Naturals, Sequences

CONSTANTS
    Lengths,  \* the lengths a message can have
    Limits    \* the values of max_frame_size

(* With a limit of zero the loop of split_bytes would not end. *)
ASSUME FrameBuilderAssumption ==
    /\ Lengths \subseteq Nat
    /\ Limits \subseteq Nat \ {0}

Kinds == {"Text", "Binary", "neither"}   \* which field of the event is set

VARIABLES
    kind, length, limit,   \* the event and the builder
    chunks, start,         \* of split_bytes
    frames,                \* what build returns
    pc                     \* "split", "frame" or "done"

vars == <<kind, length, limit, chunks, start, frames, pc>>

Init ==
    /\ kind \in Kinds
    /\ length \in Lengths /\ limit \in Limits
    /\ kind = "neither" => length = 0
    /\ chunks = <<>> /\ start = 0 /\ frames = <<>>
    /\ pc = "split"

Slice(from, to) == [from |-> from, to |-> to]

(* An event with neither text nor bytes becomes one empty frame. *)
BuildEmpty ==
    /\ pc = "split" /\ kind = "neither"
    /\ frames' = <<[opcode |-> "Binary", fin |-> TRUE, data |-> Slice(0, 0)]>>
    /\ pc' = "done"
    /\ UNCHANGED <<kind, length, limit, chunks, start>>

SplitWhole ==
    /\ pc = "split" /\ kind # "neither"
    /\ length <= limit
    /\ chunks' = <<Slice(0, length)>>
    /\ pc' = "frame"
    /\ UNCHANGED <<kind, length, limit, start, frames>>

Splitting == pc = "split" /\ kind # "neither" /\ length > limit

\* Mutant: the last slice is not cut at the end of the data.
SplitNextUncut ==
    /\ Splitting /\ start < length
    /\ chunks' = Append(chunks, Slice(start, start + limit))
    /\ start' = start + limit
    /\ UNCHANGED <<kind, length, limit, frames, pc>>

End == IF start + limit <= length THEN start + limit ELSE length

SplitNext ==
    /\ Splitting /\ start < length
    /\ chunks' = Append(chunks, Slice(start, End))
    /\ start' = End
    /\ UNCHANGED <<kind, length, limit, frames, pc>>

\* Mutant: off by one in the condition of the loop.
SplitDoneLate ==
    /\ Splitting /\ start > length
    /\ pc' = "frame"
    /\ UNCHANGED <<kind, length, limit, chunks, start, frames>>

SplitDone ==
    /\ Splitting /\ start >= length
    /\ pc' = "frame"
    /\ UNCHANGED <<kind, length, limit, chunks, start, frames>>

\* Mutant: every frame carries the opcode of the message.
FrameUncontinued(i) ==
    [opcode |-> kind, fin |-> i = Len(chunks), data |-> chunks[i]]

Frame(i) ==
    [opcode |-> IF i = 1 THEN kind ELSE "Continuation",
     fin    |-> i = Len(chunks),
     data   |-> chunks[i]]

Build ==
    /\ pc = "frame"
    /\ frames' = [i \in 1 .. Len(chunks) |-> Frame(i)]
    /\ pc' = "done"
    /\ UNCHANGED <<kind, length, limit, chunks, start>>

Next == BuildEmpty \/ SplitWhole \/ SplitNext \/ SplitDone \/ Build

Spec == Init /\ [][Next]_vars

(* build is a plain function: nothing can stop it between two steps. *)
FairSpec == Spec /\ WF_vars(Next)

-----------------------------------------------------------------------------
(* Properties. *)

TypeOK ==
    /\ kind \in Kinds
    /\ length \in Lengths /\ limit \in Limits
    /\ chunks \in Seq([from : Nat, to : Nat])
    /\ start \in Nat
    /\ pc \in {"split", "frame", "done"}

(* The payloads of the frames, put together, are the message: they begin at *)
(* its beginning, each where the one before it ended, and end at its end.   *)
Reassembles ==
    pc = "done" =>
        /\ frames # <<>>
        /\ frames[1].data.from = 0
        /\ \A i \in 1 .. Len(frames) - 1 : frames[i + 1].data.from = frames[i].data.to
        /\ frames[Len(frames)].data.to = length

(* "Larger payloads are fragmented" (server.rs:197): no frame is larger     *)
(* than max_frame_size, and none is empty but that of an empty message.     *)
FramesFit ==
    pc = "done" =>
        \A i \in 1 .. Len(frames) :
            LET d == frames[i].data IN
            /\ d.to <= d.from + limit
            /\ d.from < d.to \/ (Len(frames) = 1 /\ length = 0)

(* The peer can tell where the message begins and ends: the first frame and *)
(* no other carries its opcode, the last and no other has fin set.          *)
WellFramed ==
    pc = "done" =>
        \A i \in 1 .. Len(frames) :
            /\ frames[i].fin <=> i = Len(frames)
            /\ frames[i].opcode = "Continuation" <=> i # 1

(* The inductive invariant: what is cut off so far is a chain of slices from *)
(* the beginning of the message to start, each of which fits.               *)
Chained ==
    \A i \in 1 .. Len(chunks) :
        chunks[i].from = IF i = 1 THEN 0 ELSE chunks[i - 1].to

Fitting ==
    \A i \in 1 .. Len(chunks) :
        /\ chunks[i].to <= chunks[i].from + limit
        /\ chunks[i].from < chunks[i].to \/ (Len(chunks) = 1 /\ length = 0)

SplitInv ==
    /\ TypeOK
    /\ kind = "neither" => length = 0 /\ pc # "frame"
    /\ Chained /\ Fitting
    /\ pc = "split" =>
          /\ start <= length
          /\ start = IF chunks = <<>> THEN 0 ELSE chunks[Len(chunks)].to
    /\ pc = "frame" => chunks # <<>> /\ chunks[Len(chunks)].to = length
    /\ Reassembles /\ FramesFit /\ WellFramed

(* Fragmentation ends, for every limit above zero (websocket.rs:437-441).   *)
BuildEnds == <>(pc = "done")
=============================================================================
