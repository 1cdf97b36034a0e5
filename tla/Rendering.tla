------------------------------ MODULE Rendering ------------------------------
(***************************************************************************)
(* What drawing promises: a command is a sequence of writes to the         *)
(* framebuffer, and they are made one at a time, all of them, before the   *)
(* next command begins.  There is no vertex fetch here, no fragment buffer *)
(* and no second pass.                                                     *)
(***************************************************************************)
EXTENDS TriangleMath

CONSTANT Writes      \* the writes of each command considered

VARIABLES fb, todo

\* A fragment under the depth test. The golden model interpolates and blends in 32 bits
\* and cuts a colour only when it puts it into the framebuffer.
Put(dst, w) ==
  LET blended == Quotient(w.rgb * w.how.alpha + dst.rgb * (MaxAlpha - w.how.alpha), MaxAlpha)
  IN  IF w.z < dst.z
      THEN [z   |-> IF w.how.dwrite THEN w.z ELSE dst.z,
            rgb |-> (IF w.how.blend THEN blended ELSE w.rgb) % ColourSpace]
      ELSE dst

Written(dst, w) == IF w.clear THEN [z |-> Far, rgb |-> w.rgb] ELSE Put(dst, w)

Init == fb \in [Pixels -> Texel] /\ todo = << >>

Begin == todo = << >> /\ todo' # << >> /\ todo' \in Writes /\ UNCHANGED fb
Write ==
  /\ todo # << >> /\ todo' = Tail(todo)
  /\ LET w == Head(todo) IN fb' = [fb EXCEPT ![w.pidx] = Written(fb[w.pidx], w)]

Next == Begin \/ Write
Spec == Init /\ [][Next]_<< fb, todo >>
=============================================================================
