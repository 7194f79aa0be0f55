-------------------------- MODULE MCDeviceRegistry --------------------------
(* Small instances of DeviceRegistry.                                        *)
EXTENDS DeviceRegistry, TLC

CONSTANTS t1, t2, g1, ems_factory

MCPrefixGateway == [p \in Prefixes |-> g1]
MCPrefixType    == [p \in Prefixes |-> t1]
=============================================================================
