------------------------------- MODULE Move16 -------------------------------
(***************************************************************************)
(* The 16 bits a move has in an entry of the transposition table (tt.h):   *)
(* toMove16() and fromMove16().  A square is its number in OSL's           *)
(* SquareCompressor, 1 to 81.  What fromMove16() looks up on the board,    *)
(* the piece that moves and the piece it takes, is left out, as it is no   *)
(* part of the 16 bits.                                                    *)
(***************************************************************************)
EXTENDS Integers

Squares == 1..81
Ptypes == 0..15
NoMove == [kind |-> "none"]
DropMoves == [kind : {"drop"}, ptype : Ptypes, to : Squares]
BoardMoves == [kind : {"board"}, from : Squares, to : Squares,
               promotes : BOOLEAN]
AllMoves == {NoMove} \cup DropMoves \cup BoardMoves

ToMove16(m) ==
  CASE m.kind = "none" -> 0
    [] m.kind = "drop" -> 128 + m.ptype + m.to * 256
    [] m.kind = "board" -> m.from + m.to * 256
                             + (IF m.promotes THEN 32768 ELSE 0)

(* Bit 7 tells a drop.  The piece type of a drop is cast from move16 - 0x80 *)
(* with the square still in its upper byte, which leaves the 32 bits of the *)
(* OSL move when the type is shifted to bit 24.                             *)
DropPtype(x) == (x - 128) % 256

FromMove16(x) ==
  LET to == (x \div 256) % 128
  IN IF x = 0 THEN NoMove
     ELSE IF (x \div 128) % 2 = 1
     THEN [kind |-> "drop", ptype |-> DropPtype(x), to |-> to]
     ELSE [kind |-> "board", from |-> x % 128, to |-> to,
           promotes |-> (x \div 32768) % 2 = 1]
=============================================================================
