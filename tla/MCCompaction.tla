---------------------------- MODULE MCCompaction ----------------------------
(* One session with a short and a long earlier transcript to resume. *)
EXTENDS Compaction

MCTranscripts ==
    {<<User, Resp("say", 2)>>,
     <<User, Resp("call", 2), Return(5), Resp("say", 8)>>}

=============================================================================
