----------------------------- MODULE MCExecutor -----------------------------
(* Executor for TLC: sequences that bring every initializer into play, the  *)
(* error initializers at the front, in the middle and at the end.           *)
EXTENDS Executor

Init1(name) == [init |-> name]
OnError == Init1("set_on_error")
ThrowOnError == Init1("throw_on_error")
RunExe1(e) == [init |-> "run_exe", exe |-> e]
Args(name, a) == [init |-> name, args |-> a]
OnFd(name, f) == [init |-> name, fd |-> f]
BindFd1(id, f) == [init |-> "bind_fd", id |-> id, fd |-> f]
OnFds(name, fs) == [init |-> name, fds |-> fs]
Env(name, e) == [init |-> name, env |-> e]
Handler(name, t) == [init |-> name, throws |-> t]

MCMaxFd == 7
\* The standard streams and one file.
MCBotFiles == [f \in 0..MCMaxFd |-> IF f <= 3 THEN <<"file", f>> ELSE None]

MCCall == <<
  \* No error initializer; the program is named twice.
  <<RunExe1("a"), Args("set_args", <<"b", "x">>), OnFd("bind_stdout", 2),
    OnFd("bind_stdout", 3), OnFd("close_fd", 3), RunExe1("c")>>,
  \* The error is set; the first of three lists of arguments names no program;
  \* the child marks everything above the standard streams.
  <<OnError, Args("set_args", <<NoText, "x">>), OnFds("close_fds_if", 3..MCMaxFd),
    Args("set_args", <<"b", "x">>), Args("set_args", <<"c">>),
    Init1("close_stdout"), Env("set_env", "e"), Env("inherit_env", "environ")>>,
  \* The error is thrown, the io_service is told, the child closes everything.
  <<Init1("notify_io_service"), Args("set_cmd_line", <<"l", "y">>), ThrowOnError,
    RunExe1("a"), OnFd("bind_stdout", 3), OnFds("close_fds", 4..MCMaxFd),
    Init1("close_stderr")>>,
  \* The error is thrown; a handler of the caller may throw before or after; a
  \* file is bound to the number that the source of an error pipe may have.
  <<Handler("on_fork_setup", FALSE), BindFd1(4, 3), ThrowOnError, RunExe1("a"),
    RunExe1("c"), Handler("on_fork_success", TRUE),
    [init |-> "start_in_dir", dir |-> "d", exists |-> TRUE], Init1("notify_io_service")>>,
  \* The error is set; the handlers run in the child.
  <<OnFd("bind_stdin", 3), RunExe1("a"), Handler("on_exec_setup", FALSE), OnError,
    Handler("on_fork_error", FALSE), BindFd1(6, 3),
    OnFd("bind_stderr", 3), Init1("close_stdin"), Handler("on_exec_error", TRUE)>>
>>

CONSTANTS t1, t2
MCThread == {t1, t2}
\* Which sequences meet: the first with one that sets the error, and two that
\* throw it.
MCPairs == {<<1, 2>>, <<1, 5>>, <<4, 3>>}
MCCalls == {(t1 :> MCCall[pair[1]] @@ t2 :> MCCall[pair[2]]) : pair \in MCPairs}
=============================================================================
