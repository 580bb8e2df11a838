------------------------------ MODULE ReadPlan -------------------------------
(***************************************************************************)
(* One Read of a Modbus device (driver/modbus/modbus.go): the points are   *)
(* planned into blocks of registers, each block is one request, and every  *)
(* point is cut out of the block it lies in.  The blocks are planned by    *)
(* the driver, or declared with the device; the declared blocks here are   *)
(* those that the platform's configuration sync computes                   *)
(* (output/smardaten/sync.go).                                             *)
(*                                                                         *)
(* Registers, quantities and ends of blocks are 16-bit numbers in the      *)
(* driver and unbounded ones in the sync.  The register r of the device    *)
(* holds the value r, so that a value tells where it was read.             *)
(***************************************************************************)
EXTENDS Integers, Sequences, FiniteSets, SequencesExt

CONSTANTS
    Registers,      \* register numbers that addresses name, the unusable ones included
    None            \* no value

Word          == 65536
MaxGap        == 16
MaxCoils      == 2000
MaxRegisters  == 125

Functions == {"coil", "holding"}

\* The data types by the words they are declared with.
Types == {"short", "long", "huge"}      \* int16 ..., int32 or float32 ..., int64 or float64

Points == [register : Registers, type : Types]

CONSTANT PointLists     \* the points that a device may have

ASSUME ReadPlanAssumption ==
    /\ Registers \subseteq Int
    /\ \A list \in PointLists : list \subseteq Points /\ IsFiniteSet(list)

VARIABLES
    function,       \* the function of the device's points
    points,         \* the device's points
    declared,       \* whether the device has declared blocks
    todo,           \* the blocks still to be requested, in order
    results,        \* points |-> its quality and value
    failed          \* some request of this Read has failed

readVars == <<function, points, declared, todo, results, failed>>
---------------------------------------------------------------------------
Wrap(n) == n % Word

\* parseAddress
Parses(p) == p.register \in 0 .. Word - 1

\* quantityOf: what the driver reads of a type.
Quantity(p) == IF p.type = "long" THEN 2 ELSE 1

\* dataTypeWidthForPoint: what the sync takes it to occupy.
Width(p) == CASE p.type = "short" -> 1 [] p.type = "long" -> 2 [] p.type = "huge" -> 4

MaxQuantity == IF function = "coil" THEN MaxCoils ELSE MaxRegisters

\* sort.Slice: points with the same register come in any order, but always in the same.
Sorted(S) ==
    CHOOSE s \in [1 .. Cardinality(S) -> S] :
        ToSet(s) = S /\ \A i, j \in DOMAIN s : i < j => s[i].register <= s[j].register

Parsed == {p \in points : Parses(p)}
---------------------------------------------------------------------------
(* planBlocks: the driver's own blocks                                      *)

PointEnd(p) == Wrap(p.register + Quantity(p))

\* Mutant of Fits: the quantity of the point that joins is forgotten.
MFits(block, p) == Wrap(p.register - block.start) <= MaxQuantity

Fits(block, p) == Wrap(p.register - block.start) + Quantity(p) <= MaxQuantity

Extended(block, p) ==
    [block EXCEPT !.end   = IF PointEnd(p) > @ THEN PointEnd(p) ELSE @,
                  !.items = @ \cup {p}]

OneBlock(p) == [start |-> p.register, end |-> PointEnd(p), items |-> {p}]

Merge(blocks, p) ==
    IF blocks # <<>> /\ Fits(Last(blocks), p)
    THEN Front(blocks) \o <<Extended(Last(blocks), p)>>
    ELSE Append(blocks, OneBlock(p))

Request(start, quantity, items) == [start |-> start, quantity |-> quantity, items |-> items]

Merged(s) ==
    LET upTo[k \in 0 .. Len(s)] == IF k = 0 THEN <<>> ELSE Merge(upTo[k - 1], s[k])
    IN upTo[Len(s)]

PlanBlocks ==
    LET blocks == Merged(Sorted(Parsed))
    IN [i \in DOMAIN blocks |->
          Request(blocks[i].start, Wrap(blocks[i].end - blocks[i].start), blocks[i].items)]
---------------------------------------------------------------------------
(* buildPollBlocks: the blocks the sync declares, and how the driver uses   *)
(* them                                                                     *)

Joined(ranges, p) ==
    LET last == Last(ranges)
        end  == p.register + Width(p) - 1
    IN IF ranges # <<>> /\ p.register <= last.end + MaxGap
       THEN Front(ranges) \o <<[last EXCEPT !.end = IF end > @ THEN end ELSE @]>>
       ELSE Append(ranges, [start |-> p.register, end |-> end])

JoinedRanges(s) ==
    LET upTo[k \in 0 .. Len(s)] == IF k = 0 THEN <<>> ELSE Joined(upTo[k - 1], s[k])
    IN upTo[Len(s)]

PollBlocks ==
    LET ranges == JoinedRanges(Sorted(points))
    IN [i \in DOMAIN ranges |->
          [start |-> ranges[i].start, count |-> ranges[i].end - ranges[i].start + 1]]

\* parseDeviceParams: a number outside of 16 bits makes the whole device unusable.
Decodes == \A block \in ToSet(PollBlocks) : {block.start, block.count} \subseteq 0 .. Word - 1

PointInBlock(p, block) ==
    p.register >= block.start /\ PointEnd(p) <= Wrap(block.start + block.count)

ReadPollBlocks ==
    LET blocks == PollBlocks
    IN [i \in DOMAIN blocks |->
          Request(blocks[i].start, blocks[i].count,
                  {p \in Parsed : PointInBlock(p, blocks[i])})]
---------------------------------------------------------------------------
(* One request                                                              *)

\* The client library refuses a quantity that the protocol does not allow, and the device a
\* block beyond its last register.
Allowed(request) ==
    request.quantity \in 1 .. MaxQuantity /\ request.start + request.quantity <= Word

\* What the answer holds: registers, or bits filled up to bytes.
AnswerLength(request) ==
    IF function = "coil" THEN ((request.quantity + 7) \div 8) * 8 ELSE request.quantity

\* decodePoint and decodeValue: a type of four words cannot be decoded.
FillResult(request, p) ==
    LET offset == Wrap(p.register - request.start)
        words  == IF function = "coil" THEN 1 ELSE Quantity(p)
        value  == [k \in 1 .. words |-> request.start + offset + k - 1]
    IN IF offset + words > AnswerLength(request) \/ (p.type = "huge" /\ function # "coil")
       THEN [quality |-> "uncertain", value |-> None]
       ELSE [quality |-> "good", value |-> value]

NoResults == [p \in points |-> [quality |-> "bad", value |-> None]]

Plan == IF ~declared THEN PlanBlocks ELSE IF Decodes THEN ReadPollBlocks ELSE <<>>

Answered ==
    /\ todo # <<>> /\ Allowed(Head(todo))
    /\ todo' = Tail(todo)
    /\ results' = [p \in points |->
                     IF p \in Head(todo).items THEN FillResult(Head(todo), p) ELSE results[p]]
    /\ UNCHANGED <<function, points, declared, failed>>

\* The points of the block keep what they have.
RequestFails ==
    /\ todo # <<>> /\ todo' = Tail(todo)
    /\ failed' = (failed \/ Allowed(Head(todo)))
    /\ UNCHANGED <<function, points, declared, results>>

\* The next collection starts over.
ReadAgain ==
    /\ todo = <<>>
    /\ todo' = Plan /\ results' = NoResults /\ failed' = FALSE
    /\ UNCHANGED <<function, points, declared>>

ReadInit ==
    /\ function \in Functions /\ points \in PointLists /\ declared \in BOOLEAN
    /\ todo = Plan /\ results = NoResults /\ failed = FALSE

ReadNext == Answered \/ RequestFails \/ ReadAgain

ReadSpec == ReadInit /\ [][ReadNext]_readVars
---------------------------------------------------------------------------
Exactly(p) == [k \in 1 .. (IF function = "coil" THEN 1 ELSE Quantity(p)) |-> p.register + k - 1]

\* The points that neither the planning nor the decoding can serve: the address or the type is
\* refused, the point or its declared block touches the end of the address space, or the sync
\* has merged a block longer than one request may be.
LastWord(p) == p.register + Quantity(p) >= Word

Unusable(p) ==
    \/ ~Parses(p)
    \/ p.type = "huge" /\ function # "coil"
    \/ LastWord(p)

BeyondOneRequest(p) ==
    \E block \in ToSet(PollBlocks) :
        /\ p.register \in block.start .. block.start + block.count - 1
        /\ block.count > MaxQuantity \/ block.start + block.count >= Word

\* A value is that of the point's own registers, whatever block it was cut out of; and when no
\* request was lost every other point has one: a gap in a merged block, points that overlap,
\* their order and the limit of one request leave none out (modbus.go:405-489, sync.go:684-735).
ReadIsExact ==
    /\ \A p \in points : results[p].quality = "good" => results[p].value = Exactly(p)
    /\ todo = <<>> /\ ~failed =>
        \A p \in points :
            \/ results[p].quality = "good"
            \/ Unusable(p)
            \/ declared /\ (~Decodes \/ BeyondOneRequest(p))
=============================================================================
