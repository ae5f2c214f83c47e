----------------------------- MODULE MCSysProxy -----------------------------
(* Small instances of SysProxy for TLC.                                    *)
EXTENDS SysProxy

CONSTANTS corp, pac, localnet, intranet

MCHost == {corp}
MCUrl == {pac}
MCDomain == {localnet, intranet}
MCDefault == {localnet}

off(at) == [on |-> FALSE, at |-> at]
on(at)  == [on |-> TRUE, at |-> at]

\* A company secure proxy and PAC, with a web proxy filled in but switched off;
\* and a company web proxy with auto-discovery and no PAC.
office == [web |-> off(corp), secure |-> on(corp), bypass |-> {intranet},
           url |-> pac, pac |-> TRUE, wpad |-> FALSE]
branch == [web |-> on(corp), secure |-> off(NoHost), bypass |-> {localnet},
           url |-> NoUrl, pac |-> FALSE, wpad |-> TRUE]

MCOffice == {office}
MCBranch == {branch}
MCBoth   == {office, branch}
=============================================================================
