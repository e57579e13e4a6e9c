---------------------------- MODULE PhizFunctions ----------------------------
(***************************************************************************)
(* The string functions of php_phiz.c that work through a text once:       *)
(* route_extract_params, str_camel and str_uncamel.  A script calls one.   *)
(***************************************************************************)
EXTENDS RouteParams, StrCase

PhizInit ==
    \/ Init /\ NoCase
    \/ Init /\ pat = <<>> /\ CaseInit

PhizNext ==
    \/ Next /\ UNCHANGED caseVars
    \/ CaseNext /\ UNCHANGED vars

PhizSpec == PhizInit /\ [][PhizNext]_<<vars, caseVars>>

=============================================================================
