---------------------------- MODULE MCInputDevice ----------------------------
(* A brake and a hat that move together, and a dial. *)
EXTENDS InputDevice

At(brake, hatX, hatY, dial) ==
  [c \in Code |-> CASE c = "ABS_Z" -> brake
                    [] c = "ABS_HAT0X" -> hatX
                    [] c = "ABS_HAT0Y" -> hatY
                    [] c = "BTN_Z" -> dial
                    [] OTHER -> 0]

AnyStart == {At(0, 0, 0, 0), At(15, -1, 1, 1)}

Abs(code, value) == [type |-> "EV_ABS", code |-> code, value |-> value]
Press(code, value) == [type |-> "EV_KEY", code |-> code, value |-> value]

Moves ==
  {<<Abs("ABS_Z", 16), Abs("ABS_HAT0Y", 1)>>,
   <<Abs("ABS_Z", 0), Abs("ABS_HAT0Y", 0)>>} \cup
  {<<Press("BTN_Z", v)>> : v \in {0, 1}}

Ranges ==
  [ABS_X |-> [min |-> -7, max |-> 7], ABS_Y |-> [min |-> 0, max |-> 15],
   ABS_Z |-> [min |-> 0, max |-> 15], ABS_RZ |-> [min |-> 10, max |-> 30]]
=============================================================================
