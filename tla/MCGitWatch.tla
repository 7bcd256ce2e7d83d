------------------------------ MODULE MCGitWatch -------------------------------
\* GitWatch on small instances: its constants are numbers.
EXTENDS GitWatch
===============================================================================
