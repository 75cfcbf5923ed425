------------------------------ MODULE LzmaCode ------------------------------
(***************************************************************************)
(* The rules of lzma_code(), the one function of liblzma that every        *)
(* LZMA::Stream#code call of ext/stream.c ends in.  liblzma is not part of *)
(* the repository: the operators below state what lib/extlzma.rb and       *)
(* ext/stream.c rely on, namely the sequence a stream goes through         *)
(* (ISEQ_RUN, ISEQ_FINISH, ISEQ_END, ISEQ_ERROR), which calls it refuses,  *)
(* and when a call without progress turns into LZMA_BUF_ERROR.             *)
(*                                                                         *)
(* Only the actions that lib/extlzma.rb passes (0 = LZMA_RUN and           *)
(* LZMA::FINISH) appear.  FINISH is always passed with a nil source, so    *)
(* the rule that the amount of input must not change while finishing       *)
(* (zero stays zero) never refuses one of these calls.                     *)
(***************************************************************************)

\* The sequence of an lzma_stream.
Phases == {"run", "finish", "end", "error"}

\* The lzma_ret values these calls can return.  Utils.raise_err raises all of
\* them but OK and STREAM_END in the same way, so GET_CHECK stands for every
\* one after which coding may go on (NO_CHECK, UNSUPPORTED_CHECK and
\* MEMLIMIT_ERROR too), and DATA_ERROR for FORMAT_ERROR and OPTIONS_ERROR.
Statuses == {"OK", "STREAM_END", "GET_CHECK", "BUF_ERROR",
             "MEM_ERROR", "DATA_ERROR", "PROG_ERROR"}

\* The errors after which coding cannot be continued.
Fatal == {"MEM_ERROR", "DATA_ERROR", "PROG_ERROR"}

\* Whether a call with this action reaches the coder at all.
Admits(seq, action) == seq = "run" \/ (seq = "finish" /\ action = "FINISH")

\* What a call returns, touching nothing, when it does not.
Refusal(seq) == IF seq = "end" THEN "STREAM_END" ELSE "PROG_ERROR"

\* The sequence while an admitted call runs ...
Entered(seq, action) == IF action = "FINISH" THEN "finish" ELSE seq

\* ... and after the coder came back with ret.
Left(seq, ret) == CASE ret = "STREAM_END" -> "end"
                    [] ret \in Fatal      -> "error"
                    [] OTHER              -> seq

\* The first call that moves no byte is forgiven and remembered in
\* allow_buf_error (idle here); the next one in a row is an error.
Reported(ret, moved, idle) ==
    IF ret = "OK" /\ ~moved /\ idle THEN "BUF_ERROR" ELSE ret

\* The value of allow_buf_error after the call.
IdleAfter(ret, moved) == ret = "OK" /\ ~moved

=============================================================================
