------------------------- MODULE MCRequestPipeline -------------------------
(* RequestPipeline for TLC.  National numbers have two digits.  One request *)
(* carries any text of up to four characters over two digits, or one with   *)
(* other characters; the other one writes a single number.                  *)
EXTENDS RequestPipeline

CONSTANTS q1, q2, Mark, Arabic, Surrogate

Texts == UNION {[1..n -> {1, 9}] : n \in 0..4}
Others == {<<Plus, 9, 1, 9, 1>>, <<9, 1, Mark, 9, 9>>, <<Mark>>, <<9, 1, 9, 1, 9>>,
           <<Plus, 9, 1, 1>>, <<5, 9>>, <<9, 1, 5, 9>>, <<0, 9, 9>>,
           <<9, Arabic>>, <<Arabic, 9>>, <<9, 1, 6, Arabic>>,
           <<Surrogate>>, <<9, 9, Surrogate>>}

MCRequest == {q1, q2}
MCBody == [q \in MCRequest |->
             IF q = q1 THEN Texts \cup Others ELSE {<<9, 1>>}]
MCForeign == {Arabic}
MCUnencodable == {Surrogate}
============================================================================
