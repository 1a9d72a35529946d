------------------------------ MODULE Services ------------------------------
(***************************************************************************)
(* The parts of the program around the chat, side by side.  They share no  *)
(* state with each other, so one behaviour exercises one of them: the      *)
(* state spaces add up and nothing is lost by not interleaving them.       *)
(***************************************************************************)
EXTENDS DbPool, Lifecycle, ServerConfig, Dispatch, Rag, Uploads, Tools

VARIABLE exercised   \* the component that this behaviour is about

services == <<poolVars, lifecycleVars, configVars, dispatchVars, ragVars, uploadVars, toolVars>>
servicesVars == <<exercised, services>>

Components == {"pool", "lifecycle", "config", "dispatch", "rag", "uploads", "tools"}

InitServices ==
    /\ exercised \in Components
    /\ InitPool /\ InitLifecycle /\ InitConfig /\ InitDispatch /\ InitRag /\ InitUploads /\ InitTools
    \* one initial state is enough for a component that stands still
    /\ exercised # "config" => ~conf.exists
    /\ exercised # "tools" => \A n \in ToolFiles : texts[n] = Nothing

NextServices ==
    /\ UNCHANGED exercised
    /\ \/ /\ exercised = "pool" /\ NextPool
          /\ UNCHANGED <<lifecycleVars, configVars, dispatchVars, ragVars, uploadVars, toolVars>>
       \/ /\ exercised = "lifecycle" /\ NextLifecycle
          /\ UNCHANGED <<poolVars, configVars, dispatchVars, ragVars, uploadVars, toolVars>>
       \/ /\ exercised = "config" /\ NextConfig
          /\ UNCHANGED <<poolVars, lifecycleVars, dispatchVars, ragVars, uploadVars, toolVars>>
       \/ /\ exercised = "dispatch" /\ NextDispatch
          /\ UNCHANGED <<poolVars, lifecycleVars, configVars, ragVars, uploadVars, toolVars>>
       \/ /\ exercised = "rag" /\ NextRag
          /\ UNCHANGED <<poolVars, lifecycleVars, configVars, dispatchVars, uploadVars, toolVars>>
       \/ /\ exercised = "uploads" /\ NextUploads
          /\ UNCHANGED <<poolVars, lifecycleVars, configVars, dispatchVars, ragVars, toolVars>>
       \/ /\ exercised = "tools" /\ NextTools
          /\ UNCHANGED <<poolVars, lifecycleVars, configVars, dispatchVars, ragVars, uploadVars>>

\* The fairness of each component, where that component is exercised.
ServicesFairness ==
    /\ WF_lifecycleVars(exercised = "lifecycle" /\ MainMoves)
    /\ WF_lifecycleVars(exercised = "lifecycle" /\ TlsMoves)
    /\ WF_lifecycleVars(exercised = "lifecycle" /\ Finish)
    /\ \A t \in Uploaders : WF_uploadVars(exercised = "uploads" /\ GoesOn(t))

ServicesSpec == InitServices /\ [][NextServices]_servicesVars /\ ServicesFairness

\* The variables of every component keep their types.
ServicesTypeOK ==
    /\ PoolTypeOK /\ LifecycleTypeOK /\ ConfigTypeOK /\ DispatchTypeOK
    /\ RagTypeOK /\ UploadsTypeOK /\ ToolsTypeOK
=============================================================================
