------------------------------ MODULE MCAdnlClient ------------------------------
(* AdnlClient with the configurations that take init_adnl_udp through each of  *)
(* its outcomes.                                                               *)
EXTENDS AdnlClient

Good == [egress |-> TRUE, named |-> FALSE, key |-> TRUE, advertise |-> "usable"]

MCConfigs ==
    {Good,
     [Good EXCEPT !.named = TRUE],
     [Good EXCEPT !.key = FALSE],
     [Good EXCEPT !.advertise = "name"],
     [Good EXCEPT !.advertise = "unusable"],
     [Good EXCEPT !.egress = FALSE]}
================================================================================
