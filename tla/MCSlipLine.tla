----------------------------- MODULE MCSlipLine -----------------------------
(* Two links of the system that share no state: the serial line of the     *)
(* master (SlipLine) and the low-power-listening radio link (Bmac).  A     *)
(* behaviour is one of the line or one of the radio; the other stands      *)
(* still.                                                                  *)
EXTENDS SlipLine, Bmac, TLC

VARIABLE component

\* Payloads with each control byte at its edge, with plain bytes, and with
\* what looks like a frame of its own in the middle.
MCPayload ==
    { <<0>>, <<1>>, <<END>>, <<END, ESC>>, <<ESC, ESC>>, <<ESC_END, END>>, <<2, ESC_ESC>>,
      <<START, 1, 2>>, <<END, START, ESC>>, <<62, START, 1, 2>>, <<2, 0, END, 0>> }
MCText == {82}

MCInit == component \in {"line", "radio"} /\ Init /\ BmacInit

MCNext == /\ UNCHANGED component
          /\ \/ component = "line" /\ Next /\ UNCHANGED bmacVars
             \/ component = "radio" /\ BmacNext /\ UNCHANGED vars

MCSpec == /\ MCInit /\ [][MCNext]_<<component, vars, bmacVars>>
          /\ component = "radio" => BmacFairness

\* The data of both keep their types, in particular slip_buf does not overflow
\* (SLIPstream-server/main.c:262-264) and B-MAC listens only with a free buffer
\* (bmac.c:423-432).
TypesOK == TypeOK /\ BmacTypeOK
=============================================================================
