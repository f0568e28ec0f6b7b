---------------------------- MODULE MCToolCalls ----------------------------
EXTENDS ToolCalls

\* Pairs that contend for the lock, for a key, or for the turn's state.
MCScripts ==
    {<<"shell", "patch">>, <<"mcp", "mcp">>, <<"mcp", "input">>, <<"perm", "read">>,
     <<"shell", "unknown">>}
=============================================================================
