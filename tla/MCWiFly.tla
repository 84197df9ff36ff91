------------------------------ MODULE MCWiFly ------------------------------
(* Passphrases without, with a part of, and with the answer in them. *)
EXTENDS WiFly
MCPhrases == {<<".">>, <<".", "A", ".">>, <<"A", "O", ".", "K">>}
=============================================================================
