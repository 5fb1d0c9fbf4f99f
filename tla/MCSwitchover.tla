---------------------------- MODULE MCSwitchover ----------------------------
EXTENDS Switchover

\* "late" comes with a delayed copy of the call that opened the source.
MCEnvironments == {{}, {"late", "lose-target"}, {"late", "silent", "fault-target"},
                   {"silent", "lose-other"}, {"lose-other"}, {"lose-source"},
                   {"lose-target", "restart"}, {"fault-target"}, {"cut", "restart"}}

=============================================================================
