---------------------------- MODULE FrameBarrier ----------------------------
(***************************************************************************)
(* What the map updater promises the world thread: a frame is a fork/join  *)
(* section.  The world thread submits one unit of work per base map, a     *)
(* unit may fork further units while it runs, and the frame closes only    *)
(* when every base unit was submitted and no unit is active.  Outside a    *)
(* frame nothing is active, so the world thread owns all map state.        *)
(***************************************************************************)
CONSTANTS Roots,        \* the units the world thread submits in every frame
          Children      \* Children[r]: the units the root r may fork

VARIABLES phase,        \* "exclusive", "frame" or "stopped"
          left,         \* roots not yet submitted in this frame
          active        \* units submitted and not yet complete

fbVars == <<phase, left, active>>

Units == Roots \cup UNION {Children[r] : r \in Roots}

FBInit == /\ phase = "exclusive"
          /\ left = {}
          /\ active = {}

Open == /\ phase = "exclusive"
        /\ phase' = "frame"
        /\ \E r \in Roots : /\ left' = Roots \ {r}
                            /\ active' = {r}

Submit(r) == /\ phase = "frame"
             /\ r \in left
             /\ left' = left \ {r}
             /\ active' = active \cup {r}
             /\ UNCHANGED phase

Fork(r, u) == /\ phase = "frame"
              /\ r \in active
              /\ u \in Children[r] \ active
              /\ active' = active \cup {u}
              /\ UNCHANGED <<phase, left>>

Complete(u) == /\ phase = "frame"
               /\ u \in active
               /\ active' = active \ {u}
               /\ UNCHANGED <<phase, left>>

Close == /\ phase = "frame"
         /\ left = {}
         /\ active = {}
         /\ phase' = "exclusive"
         /\ UNCHANGED <<left, active>>

Stop == /\ phase = "exclusive"
        /\ phase' = "stopped"
        /\ UNCHANGED <<left, active>>

FBNext == \/ Open
          \/ \E r \in Roots : Submit(r)
          \/ \E r \in Roots : \E u \in Children[r] : Fork(r, u)
          \/ \E u \in Units : Complete(u)
          \/ Close
          \/ Stop

FBSpec == FBInit /\ [][FBNext]_fbVars /\ WF_fbVars(Close)
=============================================================================
