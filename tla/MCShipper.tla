-------------------------------- MODULE MCShipper --------------------------------
(* Instances of Shipper: hash h is the live row at seq h (Dense), or seq 1 *)
(* is a tombstone row and the later hashes are shifted by one (Holed).     *)
EXTENDS Shipper

Dense == [h \in Hash |-> h]

Holed == [h \in Hash |-> IF h = 0 THEN 0 ELSE h + 1]
================================================================================
