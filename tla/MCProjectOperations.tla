------------------------ MODULE MCProjectOperations ------------------------
(* One context of each kind of deployment, two commands at a time.         *)
EXTENDS ProjectOperations

MCScenarios ==
    {<<"local", "file">>, <<"synced", "file">>, <<"remote_only", "file">>,
     <<"manifests", "file">>, <<"helm", "db">>}

Synced == {<<"synced", "file">>}
Deploys == {<<"deploy", FALSE>>}

MCRequests ==
    {<<"deploy", FALSE>>, <<"apply", FALSE>>, <<"delete", FALSE>>, <<"backup", TRUE>>,
     <<"restore", TRUE>>, <<"undo", FALSE>>}
=============================================================================
