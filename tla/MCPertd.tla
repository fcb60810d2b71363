-------------------------------- MODULE MCPertd --------------------------------
(* Data files for the checks of Pertd: row 0 gets a text of two lines that *)
(* must scroll and then a lone newline, row 1 a short line; rows 2 and 3  *)
(* have no file.  Every text ends with a newline, as echo writes it.       *)
EXTENDS Pertd

MC_Versions ==
    (0 :> << <<"a", NL, "b", "c", NL>>, <<NL>> >>)
    @@ (1 :> << <<"d", "e", NL>> >>)
    @@ (2 :> << >>) @@ (3 :> << >>)
================================================================================
