------------------------------- MODULE MCDatapath -------------------------------
(***************************************************************************)
(* The instance of Datapath for TLC. The lane's numbers have 4 exponent    *)
(* and 3 mantissa bits, so that a register has 8 and all pairs can be      *)
(* taken; roots have the device's exponent and 7 mantissa bits, turns the  *)
(* device's exponent and 14, which the products TLC can hold allow.        *)
(***************************************************************************)
EXTENDS Datapath

Guards == {[neg |-> 0, psel |-> 0], [neg |-> 1, psel |-> 2]}
Ids    == {0, 7, 15}

\* Every operation of each format; a register operand 0, 7 or 15; the immediates at the
\* ends of their fields and around zero.
Ends(n) == {-2^(n - 1), -1, 0, 3, 2^(n - 1) - 1}
MCFormats ==
  [fmt : {"R"}, op : (OP.ADD .. OP.SEQ) \cup (OP.FADD .. OP.F2I) \cup {OP.MOV},
   d : Ids, a : Ids, b : Ids, g : Guards]
  \cup [fmt : {"I"}, op : (OP.ADDI .. OP.SLTIU) \cup {OP.LDG, OP.STG, OP.LDS, OP.STS},
        d : Ids, a : Ids, imm : Ends(15), g : Guards]
  \cup [fmt : {"U"}, op : {OP.MOVI, OP.LDC}, d : Ids, imm : Ends(19) \cup {1}, g : Guards]
  \cup [fmt : {"U"}, op : {OP.RDSR}, d : {7}, imm : 0 .. 15, g : Guards]
  \cup [fmt : {"B"}, op : {OP.BRA, OP.SSY, OP.CALL}, imm : Ends(23), g : Guards]
  \cup [fmt : {"P"}, op : {OP.ISETP, OP.FSETP}, d : {0, 2, 3}, cc : 0 .. 7,
        a : {7, 15}, b : {0, 7}, g : Guards]
  \cup [fmt : {"Q"}, op : {OP.ISETPI}, d : {0, 2, 3}, cc : 0 .. 7, a : {7, 15},
        imm : Ends(14), g : Guards]
  \cup [fmt : {"F"}, op : {OP.MUFU}, cc : 0 .. 4, d : Ids, a : Ids, b : {0}, g : Guards]

\* Registers hold a small integer, a number and a negative number.
MCContexts ==
  {[reg |-> [i \in 0 .. 15 |-> CASE i = 0 -> x [] i = 7 -> y [] i = 15 -> z [] OTHER -> 99],
    pred |-> <<FALSE, p, FALSE>>, lane |-> 1, warp |-> 1, bidx |-> 2, bdx |-> 4, gdx |-> 5,
    cbank |-> <<9, 200, 77, 78>>, loaded |-> 2] :
   x \in {5, 57}, y \in {57, 186}, z \in {186, 61}, p \in BOOLEAN}

MCPairs == F!Float \X F!Float
MCRegisters == Word \X {0, 1, 3, 7, 56, 127, 128, 129, 200, 255}

\* The whole mantissa at the exponents where the cases meet, and at both parities.
MCRoots == [s : {0, 1}, e : {0, 1, 2, 3, 126, 127, 128, 129, 252, 253, 254, 255}, m : 0 .. 127]
MCTurns == [s : {0}, e : {0, 1, 110, 113, 118} \cup (121 .. 134) \cup {140, 145, 150, 254},
            m : {i * 61 : i \in 0 .. 268}]

Textures == {S!checker(4, 4, 2, 10, 250), S!checker(4, 4, 1, 0, 255), S!checker(8, 8, 3, 7, 90),
             S!checker(1, 1, 1, 40, 90),
             [W |-> 4, H |-> 4, levels |-> 1, rgb |-> [i \in 1 .. 16 |-> (i * i * 37) % 256]]}
MCTexRequests == [tex : Textures, ratio : {0, 3, 4, 15, 16, 64, 1000},
                  u : {-700, -128, -1, 0, 127, 128, 300, 513, 1023, 1025, 4000},
                  v : {-300, 0, 129, 400, 640, 1300}]
=================================================================================
