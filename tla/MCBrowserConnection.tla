------------------------- MODULE MCBrowserConnection -------------------------
EXTENDS BrowserConnection

\* A Browser behind an authenticated proxy, and one without a proxy whose pages
\* are left open.
MCLaunches == {[mode |-> "auth", leaveOpen |-> FALSE], [mode |-> "direct", leaveOpen |-> TRUE]}
=============================================================================
