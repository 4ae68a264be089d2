---------------------------- MODULE MC_AuthStore ----------------------------
EXTENDS AuthStore

MCDomainOf == [e \in Emails |-> "a.org"]

\* Nobody has used the daemon; or two accounts have, the second with a key and a share.
MCHistories ==
    {<<>>,
     <<UserEntry("first", TRUE), About("top-admin", "first"), UserEntry("second", TRUE),
       KeyEntry("k1", "second", "old label"),
       ShareEntry(NewShare("g1", "second", "first", <<"second", Old, "exom">>, "read"))>>}

=============================================================================
