------------------------------- MODULE SvStore -------------------------------
(***************************************************************************)
(* sv_store of containers.h: copies strings into blocks of characters and  *)
(* hands out views of the copies, which stay valid while blocks are added  *)
(* and moved about in a priority queue.                                    *)
(*                                                                         *)
(* A block is named by its place in blocks, the order of creation: where   *)
(* it is in the queue matters only for which block is at the top, and      *)
(* among blocks with as much space that is any of them.                    *)
(***************************************************************************)
EXTENDS Integers, Sequences, FiniteSetsExt

CONSTANT BlockSize      \* default_block_size

ASSUME SvStoreAssumption == BlockSize \in Nat

VARIABLE blocks         \* capacity and used characters of each block

NullSv == <<-1>>        \* a string_view whose data() is nullptr: characters are >= 0

View(b, first, n) == [block |-> b, first |-> first, size |-> n]
NullView == View(0, 0, 0)

available_space(b) == b.capacity - Len(b.used)

NewBlock(space) == [capacity |-> space, used |-> << >>]

Tops(bs) ==
    {i \in DOMAIN bs :
        \A j \in DOMAIN bs : available_space(bs[j]) =< available_space(bs[i])}

(* Mutant of AddUnsafe: the view starts one character too early.           *)
AddUnsafeEarly(bs, i, sv) ==
    IF sv = NullSv
    THEN [blocks |-> bs, view |-> NullView]
    ELSE [blocks |-> [bs EXCEPT ![i].used = @ \o sv],
          view   |-> View(i, Max({1, Len(bs[i].used)}), Len(sv))]

(* block::add_unsafe.                                                      *)
AddUnsafe(bs, i, sv) ==
    IF sv = NullSv
    THEN [blocks |-> bs, view |-> NullView]
    ELSE [blocks |-> [bs EXCEPT ![i].used = @ \o sv],
          view   |-> View(i, Len(bs[i].used) + 1, Len(sv))]

SvSize(sv) == IF sv = NullSv THEN 0 ELSE Len(sv)

(* Mutant of has_space_for: one character too many fits.                   *)
has_nearly_space_for(b, sv) == SvSize(sv) =< available_space(b) + 1

has_space_for(b, sv) == SvSize(sv) =< available_space(b)

(* What add(sv) may make of the blocks, and the view it returns.           *)
Added(sv) ==
    LET bs == IF blocks = << >> THEN <<NewBlock(BlockSize)>> ELSE blocks
        longer == Append(bs, NewBlock(Max({SvSize(sv), BlockSize})))
    IN  {IF has_space_for(bs[i], sv) THEN AddUnsafe(bs, i, sv)
                                     ELSE AddUnsafe(longer, Len(longer), sv) :
            i \in Tops(bs)}

(* The characters a view refers to.                                        *)
Read(v) ==
    IF v = NullView THEN << >>
    ELSE SubSeq(blocks[v.block].used, v.first, v.first + v.size - 1)

InBounds(v) ==
    v # NullView =>
        /\ v.block \in DOMAIN blocks
        /\ v.first + v.size - 1 =< Len(blocks[v.block].used)
        /\ Len(blocks[v.block].used) =< blocks[v.block].capacity

Disjoint(v, w) ==
    \/ v.block # w.block
    \/ v.first + v.size =< w.first
    \/ w.first + w.size =< v.first
=============================================================================
