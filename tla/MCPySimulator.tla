--------------------------- MODULE MCPySimulator ----------------------------
EXTENDS PySimulator

\* Every function, with arguments that pass and arguments that do not; the
\* largest qubit is 1.
MCSlowCalls ==
    {Calls("mcx", TRUE, <<0>>, <<1>>, 0), Calls("mcx", TRUE, <<1>>, <<1>>, 0),
     Calls("mcswap", TRUE, <<0, 1>>, <<>>, 0), Calls("mcswap", TRUE, <<0, 1>>, <<1>>, 0),
     Calls("mcswap", TRUE, <<0, 2>>, <<>>, 0),
     Calls("mcphase", TRUE, <<>>, <<0, 1>>, 0), Calls("mcphase", TRUE, <<>>, <<0, 0>>, 0),
     Calls("mcphase", FALSE, <<>>, <<0>>, 0), Calls("mcphase", TRUE, <<>>, <<0, 2>>, 0),
     Calls("measure", TRUE, <<0>>, <<>>, 0), Calls("probs", TRUE, <<1>>, <<>>, 0),
     Calls("flush", TRUE, <<>>, <<>>, 0), Calls("dump", TRUE, <<>>, <<>>, 0),
     Calls("copy_amplitudes", TRUE, <<>>, <<>>, 4),
     Calls("import_amplitudes", TRUE, <<>>, <<>>, 4), Calls("import_amplitudes", TRUE, <<>>, <<>>, 0),
     Calls("iter", TRUE, <<>>, <<>>, 0)}

MCFastCalls ==
    {Calls("u3", TRUE, <<0>>, <<>>, 0), Calls("u3", TRUE, <<2>>, <<>>, 0),
     Calls("reset_state", TRUE, <<>>, <<>>, 0), Calls("clone", TRUE, <<>>, <<>>, 0),
     Calls("state_len", TRUE, <<>>, <<>>, 0), Calls("_perf", TRUE, <<>>, <<>>, 0)}

\* A swap of a qubit with itself.
MCSelfSwap == {Calls("mcswap", TRUE, <<1, 1>>, <<0>>, 0)}
=============================================================================
