------------------------------ MODULE MCConsole ------------------------------
(* Module Console with a buffer of three characters. *)
EXTENDS Console

MCKeys == {<<"shift", FALSE>>, <<"ctl", FALSE>>, <<"ctl", TRUE>>,
           <<"caps", FALSE>>, <<"d", FALSE>>}

(* Keys are pressed only while nobody reads: the keyboard shares           *)
(* nothing with the readers but the characters it hands to consoleintr.    *)
MCNext == Next /\ (kbd' = <<{}, {}, <<>>>> \/ (r' = 0 /\ \A p \in Reader : rd'[p].pc = "user"))
MCSpec == Init /\ [][MCNext]_vars /\ \A p \in Reader : WF_vars(Read(p))

=============================================================================
