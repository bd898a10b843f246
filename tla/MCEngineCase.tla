---------------------------- MODULE MCEngineCase ----------------------------
(* An instance of EngineCase for TLC: every fact on both sides of the      *)
(* limit a gate compares it with.                                          *)
EXTENDS EngineCase

Both(limit)  == {limit - 1, limit}
PastOrAhead  == {-1, 2}
Notices      == {-1} \cup Both(NoticeHours)
Queued       == {{}, {"REMIND", "PAY_LINK"}}
AtAges       == {WindowHours, WindowHours + 1}
AtAttempts   == Both(MaxAttempts)
AtContacts   == Both(MaxContacts7d)
=============================================================================
