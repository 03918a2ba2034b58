--------------------------- MODULE MCDeviceActions ---------------------------
(* Instances of DeviceActions for TLC. *)
EXTENDS DeviceActions

CONSTANTS mute, gain, boost, level, controlMode

\* The order of the tables in const.py and backup_export.py: the control mode
\* is read after the fast paths and before the EQ.
TablesReadOrder == <<level, mute, controlMode, gain, boost>>
TablesAllowlist == <<level, mute, gain, boost>>

\* Without a level, where only the EQ matters.
EqReadOrder == <<mute, controlMode, gain, boost>>
EqAllowlist == <<gain, mute, boost>>

=============================================================================
