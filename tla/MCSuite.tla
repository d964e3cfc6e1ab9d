------------------------------ MODULE MCSuite ------------------------------
(* Two binaries: the tests of the first ask for different sizes, one of    *)
(* them out of range, as HOPRD_RETURN_PATH_NODES lets the scenarios of     *)
(* return_path do; those of the second ask for none.                       *)
EXTENDS Suite

TwoBinaries == << << {9}, {1} >>, << {}, {} >> >>
=============================================================================
