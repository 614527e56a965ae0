------------------------------ MODULE Firmware ------------------------------
(***************************************************************************)
(* The firmware of the 3D printer, which is not part of dashprint: what    *)
(* src/Printer.cpp relies on of a Marlin-like firmware.  It executes a     *)
(* frame without a line number, and one whose number follows the last      *)
(* one; any other, and any whose checksum is wrong, it refuses with        *)
(* "Resend:" and the number it expects.  Every frame ends in "ok".         *)
(***************************************************************************)
EXTENDS Printer

CONSTANTS
    ReportErrors    \* whether a refusal starts with an "Error:" line

ASSUME ReportAssumption == ReportErrors \in BOOLEAN

Firmwares == [last : Nat, mode : Modes]

PoweredUp == [last |-> 0, mode |-> [rel |-> FALSE, erel |-> FALSE]]

Line(t) == [t |-> t, n |-> NoLine]

InSequence(fw, frame) == frame.n = NoLine \/ frame.n = fw.last + 1

(* How positions are read: G90 and G91 set the axes and the extruder. *)
Positioned(mode, text) ==
    IF text \in {"G90", "G91"}
      THEN [rel |-> text = "G91", erel |-> text = "G91"]
    ELSE IF text \in {"M82", "M83"} THEN [mode EXCEPT !.erel = text = "M83"]
    ELSE mode

Executed(fw, frame) ==
    [fw EXCEPT !.last = CASE frame.text = "M110" -> 0
                          [] frame.n # NoLine -> frame.n
                          [] OTHER -> @,
               !.mode = Positioned(@, frame.text)]

Acknowledgement(frame) ==
    (IF frame.text \in HeatWait THEN << Line("other") >> ELSE << >>)
      \o << Line("ok") >>

Refusal(fw) ==
    (IF ReportErrors THEN << Line("error") >> ELSE << >>)
      \o << [t |-> "resend", n |-> fw.last + 1], Line("ok") >>

(* What the printer writes is lost unless somebody has the port open. *)
Reply(p, lines) == IF Writable(p) THEN [p EXCEPT !.wire = @ \o lines] ELSE p
=============================================================================
