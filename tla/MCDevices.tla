----------------------------- MODULE MCDevices ------------------------------
(* A small instance of Devices for TLC.                                    *)
EXTENDS Devices

Programs == << {"sleep"}, {"read", "write", "kill", "change_tickets"} >>
=============================================================================
