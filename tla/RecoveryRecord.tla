--------------------------- MODULE RecoveryRecord ---------------------------
(***************************************************************************)
(* RecoveryState: the last real-live fix, and its copy in the application's *)
(* settings, from which the next start of the program restores it.          *)
(*                                                                          *)
(* A fix is told apart by the recording it was received in and by the time  *)
(* that has passed since the settings were last written by a fix.  Times    *)
(* are counted in units of which Second make a second.                      *)
(***************************************************************************)
EXTENDS Integers

CONSTANTS Second

ASSUME SecondAssumption == Second \in Nat \ {0}

Nobody == 0     \* the recordings are numbered from 1

NoRecord == [of |-> Nobody, at |-> 0, earlier |-> FALSE, reference |-> Nobody]

\* A reference is named by the recording it was chosen, or first seen, in.
NoRecovery ==
    [record |-> NoRecord, identity |-> Nobody, reference |-> Nobody,
     real |-> FALSE, clock |-> Second, stored |-> NoRecord]

json(r) == r.record

\* QSettings::setValue of the record.
Stored(r) == [r EXCEPT !.stored = json(r)]

markEarlier(r) ==
    IF r.record = NoRecord THEN r ELSE [r EXCEPT !.record.earlier = TRUE]

beginSession(r, recording) ==
    markEarlier([r EXCEPT !.identity = recording, !.reference = Nobody])

setReference(r, who) ==
    IF r.record = NoRecord THEN [r EXCEPT !.reference = who]
    ELSE [r EXCEPT !.reference = who, !.record.reference = who]

\* The first fix of a recording is its launch point, unless a reference was chosen.
observe(r) ==
    LET reference == IF r.reference = Nobody THEN r.identity ELSE r.reference
        record == [of |-> r.identity, at |-> r.clock, earlier |-> FALSE,
                   reference |-> reference]
    IN  IF ~r.real THEN r ELSE [r EXCEPT !.reference = reference, !.record = record]

\* MainWindow::recordLiveSample saves a fix when a second has passed.
recordFix(r) ==
    LET seen == observe(r) IN
    IF ~r.real \/ r.clock < Second THEN seen
    ELSE Stored([seen EXCEPT !.record.at = 0, !.clock = 0])

Bug_endInputKeepsRecord(r) == r

\* MainWindow::stopSerial.
endInput(r) ==
    LET earlier == markEarlier(r) IN
    IF ~r.real THEN r
    ELSE IF earlier.record = NoRecord THEN earlier ELSE Stored(earlier)

restore(r) ==
    IF r.stored = NoRecord THEN [NoRecovery EXCEPT !.stored = r.stored]
    ELSE [NoRecovery EXCEPT !.stored = r.stored,
                            !.record = [r.stored EXCEPT !.earlier = TRUE, !.at = 0],
                            !.reference = r.stored.reference]

Waited(r) == [r EXCEPT !.clock = IF @ < Second THEN @ + 1 ELSE Second]
=============================================================================
