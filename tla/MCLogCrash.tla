----------------------------- MODULE MCLogCrash ------------------------------
(* LogCrash with the payloads of MCLog. *)
EXTENDS LogCrash

MCValue == {"", "hello"}

(* proto3: an empty field is left out, others have a tag and a length or
   a varint (of one byte below 128). *)
MCRecordLen(r) ==
    (IF r.value = "" THEN 0 ELSE 2 + 5) + (IF r.offset = 0 THEN 0 ELSE 1 + 1)
=============================================================================
