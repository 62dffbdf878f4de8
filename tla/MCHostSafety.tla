---------------------------- MODULE MCHostSafety ----------------------------
(* A small instance of HostSafety: two limits of one unit each, and one    *)
(* text for every way a sample can be accepted or rejected.                *)
EXTENDS HostSafety

\* <<MemTotal, MemAvailable, SwapTotal, SwapFree>>
MCTexts == {
    <<4, 3, 4, 4>>,            \* healthy, no swap in use
    <<4, 3, 4, 3>>,            \* healthy, one unit of swap in use
    <<4, 3, 4, 2>>,            \* two units: within the limit of neither
    <<4, 3, 3, 3>>,            \* a different SwapTotal
    <<4, 1, 4, 4>>,            \* too little memory
    <<4, 3, 4, 5>>,            \* SwapFree exceeds SwapTotal
    <<4, 3, 4, Absent>>,
    <<4, Garbled, 4, -1>> }
=============================================================================
