--------------------------- MODULE InputDeviceState ---------------------------
(***************************************************************************)
(* One complete frame of the input device, what the reader hands to the    *)
(* command generator.  Wheel and pedals are in percent.                    *)
(***************************************************************************)
EXTENDS Integers

Button == {"cross", "square", "circle", "triangle", "r1", "l1", "r2", "l2",
           "select", "start", "r3", "l3", "plus", "minus",
           "encoder_clockwise", "encoder_counter_clockwise",
           "encoder_confirm"}

PovUp == {"UP", "UP_LEFT", "UP_RIGHT"}
PovLeft == {"LEFT", "UP_LEFT", "DOWN_LEFT"}
PovRight == {"RIGHT", "UP_RIGHT", "DOWN_RIGHT"}
PovDirection == PovUp \cup PovLeft \cup PovRight \cup {"CENTER", "DOWN"}

Frame == [wheel: -100 .. 100, accelerator: 0 .. 100, brake: 0 .. 100,
          clutch: 0 .. 100, pressed: SUBSET Button, pov: PovDirection]

Released == [wheel |-> 0, accelerator |-> 0, brake |-> 0, clutch |-> 0,
             pressed |-> {}, pov |-> "CENTER"]
=============================================================================
