--------------------------- MODULE MCDeviceList ---------------------------
(* A small instance of DeviceList: one device, renamed and switched off.    *)
EXTENDS DeviceList, TLC

CONSTANTS n1, n2, v1

Details == [name : {n1, n2}, ver : {v1, NoVer}]
============================================================================
