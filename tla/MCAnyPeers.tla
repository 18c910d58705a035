----------------------------- MODULE MCAnyPeers -----------------------------
(***************************************************************************)
(* Instances of AnyPeers for TLC: which bodies the peers may send.         *)
(***************************************************************************)
EXTENDS AnyPeers

Ok(vals) == [val : vals, quality : {"ok"}]

\* From the first byte to the end of authentication, TLS included.
StartSays ==
    [Frontend |-> Ok({"Startup", "Cancel", "TLS", "Password", "Terminate"})
                      \cup [val : {"Startup"}, quality : {"malformed", "badLength"}],
     Backend  |-> Ok({"CleartextPassword", "AuthenticationOk", "NoticeResponse",
                      "ErrorResponse", "ParameterStatus", "SaslFinal"})
                      \cup [val : {"NoticeResponse"}, quality : {"badLength"}]]

\* Sessions without a password, up to their queries.
QuerySays ==
    [Frontend |-> Ok({"Startup", "Query", "Parse", "Bind", "Execute", "Sync", "Terminate"}),
     Backend  |-> Ok({"AuthenticationOk", "BackendKeyData", "ReadyForQuery", "RowDescription",
                      "DataRow", "CommandComplete", "EmptyQueryResponse", "ParseComplete",
                      "BindComplete", "PortalSuspended", "ErrorResponse"})]

\* Authentication of every kind, one of each, with the messages that must not come early.
AuthSays ==
    [Frontend |-> Ok({"Startup", "Password", "GssResponse", "SaslInitialResponse",
                      "SaslResponse", "Query"}),
     Backend  |-> Ok((AuthenticationBody \ {"Sspi", "Md5Password", "ScmCredential"})
                      \cup {"BackendKeyData", "ReadyForQuery"})]
=============================================================================
