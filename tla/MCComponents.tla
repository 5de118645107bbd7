------------------------------ MODULE MCComponents ------------------------------
(* An instance of Components for TLC.                                       *)
EXTENDS Components

(* Two reports with the same time in different zones, an older one, and     *)
(* times that are rounded up and down.                                      *)
MCReports ==
    {[id |-> 1, kind |-> "location", time |-> 3, zone |-> 0],
     [id |-> 2, kind |-> "location", time |-> 5, zone |-> 4],
     [id |-> 3, kind |-> "location", time |-> 5, zone |-> 0],
     [id |-> 4, kind |-> "alarm", time |-> 2, zone |-> 0]}
(* Bounds within half a second and within a second of those times.          *)
MCBounds ==
    {[time |-> 0, zone |-> 0], [time |-> 3, zone |-> 4], [time |-> 4, zone |-> 0],
     [time |-> 5, zone |-> 0], [time |-> 6, zone |-> 4], [time |-> 8, zone |-> 0]}
MCHash == [d \in Devices |-> IF d = CHOOSE e \in Devices : TRUE THEN 1 ELSE 2]
MCUnset == [type |-> "none", v |-> 0]
MCValues == {[type |-> "int", v |-> 1], [type |-> "string", v |-> 2]}

(* The bodies, flow numbers and noise are made of the bytes that matter to  *)
(* framing (0x7E, 0x7D, 0x01, 0x02), the phone numbers are shorter and      *)
(* longer than their field.                                                 *)
Phones == {<<1>>, <<7, 1, 3, 2, 5, 4, 7, 6, 9, 8, 1, 0, 2>>}
Bodies == {<<>>, <<126>>, <<125, 2>>, <<2, 1, 126>>}
MCMessages ==
    [msgID : {512}, version : {0, 1}, encryption : {5}, subPackage : {FALSE},
     phoneNo : {<<1>>}, msgFlowNo : {32001}, body : Bodies]
    \cup
    [msgID : {512}, version : {0, 1}, encryption : {0}, subPackage : {TRUE},
     phoneNo : Phones, msgFlowNo : {126}, body : {<<1>>}]
================================================================================
