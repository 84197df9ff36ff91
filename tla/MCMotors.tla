------------------------------ MODULE MCMotors ------------------------------
(* The joystick let go, a turn with unlike speeds, and speeds with a low byte  *)
(* of 13, one of which leaves nothing of itself.                               *)
EXTENDS Motors
MCDemands == {[w \in Wheels |-> Stop],
              [w \in Wheels |-> IF w = 49 THEN [dir |-> Forward, speed |-> 300]
                                ELSE [dir |-> Backward, speed |-> 5]],
              [w \in Wheels |-> IF w = 49 THEN [dir |-> Backward, speed |-> 269]
                                ELSE [dir |-> Forward, speed |-> 13]]}
MCAnswer == <<79>>
=============================================================================
