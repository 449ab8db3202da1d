------------------------------ MODULE MCDelivery ------------------------------
EXTENDS Delivery

Repository(branches, files) == [branches |-> branches, files |-> files]

\* Projects whose steps differ: two install commands and nothing to build, no
\* install command and nothing to test, an unreadable package.json, no command
\* at all; on the branch asked for, or on one of those tried instead.
MCRepos == {
    Repository({"dev"}, {"requirements.txt", "requirements-dev.txt", "tests"}),
    Repository({"master"}, {"setup.py"}),
    Repository({"main"}, {"package.json", "bad package.json"}),
    Repository({"dev"}, {}) }
===============================================================================
