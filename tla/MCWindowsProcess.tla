-------------------------- MODULE MCWindowsProcess --------------------------
(* WindowsProcess for TLC: sequences that use every initializer.            *)
EXTENDS WindowsProcess

Plain(name) == [init |-> name]
Bind(name, h) == [init |-> name, handle |-> h]

MCCalls == {
  \* No error initializer.
  <<[init |-> "set_cmd_line", line |-> "l"], [init |-> "run_exe", exe |-> "a"],
    Bind("bind_stdin", "in"), Plain("close_stdin"), Bind("bind_stdout", "log"),
    [init |-> "set_env", env |-> "e"]>>,
  \* The error is set; a handler may throw first.
  <<Plain("close_stderr"), [init |-> "set_args", line |-> "b x", exe |-> "b"],
    Plain("on_CreateProcess_error"), Plain("set_on_error"), Plain("close_stdout")>>,
  \* The error is thrown.
  <<Plain("throw_on_error"), Plain("on_CreateProcess_setup"), Plain("hide_console"),
    Bind("bind_stderr", "log"), [init |-> "show_window", bits |-> {0, 2}],
    Plain("close_stdout"), [init |-> "start_in_dir", dir |-> "d"],
    Bind("bind_stdout", "out")>>
}
=============================================================================
