------------------------------ MODULE MCScreen ------------------------------
(* The phases of the engine for TLC: the ring under and over one refill.    *)
EXTENDS Screen

MCMedia == {<<"off", 0>>, <<"tuning", 0>>, <<"buffering", 3>>,
            <<"on air", 1>>, <<"on air", 3>>}
MCOnAir == {<<"off", 0>>, <<"on air", 1>>}
=============================================================================
