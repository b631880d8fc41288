SPECIFICATION LnkSpec
CONSTANTS
    Own = {"10HD", "10FD", "100HD", "100FD"}
    AfterReset = {"10HD", "10FD", "100HD"}
    Partners = {{"10HD", "10FD", "100HD", "100FD"}, {"10HD", "10FD"}, {"100HD"}, {"10HD"}}
    MaxPlugs = 2
    MaxStarts = 2
INVARIANT PhydevAsPartner
CHECK_DEADLOCK FALSE
