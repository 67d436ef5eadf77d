---------------------------- MODULE ScreensOwner ----------------------------
(***************************************************************************)
(* What the screens of the owner, the set-up, the command center, help and *)
(* errors show: each render function of app/bot/screens as the set of      *)
(* keyboards it may answer with. The text of a screen and the figures in   *)
(* it are left out; where the keyboard depends on the data (a list that    *)
(* may be empty, a record that may be missing), every case is in the set.  *)
(***************************************************************************)
EXTENDS Menus

-----------------------------------------------------------------------------
(* The command center                                                      *)
command_center_menu ==
    [buttons |-> {"today_priorities", "command_center:intelligence",
         "command_center:operations", "command_center:systems", "command_center:admin",
         "command_center:scores", "command_center:refresh"}, back |-> NoBack]
hub_menu(buttons, back_to) == Keys(buttons, back_to)
scores_menu == Keys({"command_center:score:@"}, "command_center")
home_screen_from_report == {command_center_menu}
render_command_center_home == home_screen_from_report
render_command_center_refresh_page == home_screen_from_report
render_intelligence_hub_page ==
    {hub_menu({"drift", "coo:briefing", "agency_awareness", "today_priorities",
         "ai_brain", "decision:memory", "reality:check", "intelligence:quality",
         "prediction:preview"}, "command_center")}
render_operations_hub_page ==
    {hub_menu({"opportunities", "opportunities:creators", "opportunities:posts",
         "command_center:score:@", "tasks", "agency_awareness:evidence"}, "command_center")}
render_systems_hub_page ==
    {hub_menu({"recovery_center", "reliability", "ai_brain:settings", "search",
         "platforms", "platforms:notifications", "production_observability",
         "recovery:storage"}, "command_center")}
render_admin_hub_page ==
    {hub_menu({"settings", "help", "help:@", "audit_logs", "platforms", "owner_advanced",
         "ui_self_test", "callback_failure_review"}, "command_center")}
render_scores_page == {scores_menu}
render_score_detail_page == {hub_menu({}, "command_center:scores")}

-----------------------------------------------------------------------------
(* Home and the first screens                                              *)
render_main_menu(role) ==
    IF Manages(role) THEN render_command_center_home
    ELSE {role_home_menu(role_home_items[role])}
render_owner_advanced_page == {owner_advanced_home_menu}
render_start_here_page == {start_here_menu}
render_first_workspace_flow_page ==
    {first_workspace_menu({"model:#:complete", "setup:wizard:model",
         "setup:wizard:accounts", "proxies:add", "proxies:missing", "model:#:team",
         "setup:wizard:team", "setup:wizard:creators", "setup:wizard:opportunities",
         "automations:daily_autopilot:run", "first_workspace:skip_team"})}
render_today_priorities_page ==
    {today_priorities_menu(decision_pages \cup {"button_health"})}
render_setup_progress_page == {setup_progress_menu(setup_steps)}
render_assistant_next_page ==
    {assistant_next_menu(page) : page \in setup_steps \cup decision_pages \cup
         {"manager_queue", "my_opportunities", "my_work", "tasks:my", "help",
         "today_priorities"}}
render_dashboard == {dashboard_menu, personalized_dashboard_menu}
render_personalized_dashboard_page == {personalized_dashboard_menu}
render_daily_experience_page ==
    {daily_experience_menu(role_home_items[role]) : role \in DOMAIN role_home_items}
render_performance_page == {performance_menu}
render_structure_map_page == {structure_map_menu}

-----------------------------------------------------------------------------
(* Setup and activation                                                    *)
render_setup_wizard_page == {setup_wizard_menu}
render_agency_activation_page == {agency_activation_menu}
render_activation_section_page ==
    {choice_menu({"agency_activation:scan", "agency_activation:blocker:@:#"} \cup
         blocker_pages, "agency_activation"), activation_section_menu}
render_activation_blocker_detail_page ==
    {activation_blocker_detail_menu, activation_section_menu}
render_model_completion_page == {model_completion_menu, page_menu("agency_activation:@")}
render_account_setup_state_page == {account_setup_state_menu({"account:#"})}
render_setup_model_prompt_page == {page_menu("setup:wizard")}
render_setup_accounts_page ==
    {choice_menu({"setup:wizard:accounts:platform:@", "setup:wizard:model"},
         "setup:wizard")}
render_setup_account_input_page ==
    {page_menu("setup:wizard:accounts")} \cup render_setup_accounts_page
render_setup_team_page(assigning) ==
    IF assigning
    THEN {choice_menu({"setup:wizard:model"}, "setup:wizard"),
         choice_menu({"setup:wizard:team:assign:@:#", "users:pending"}, "setup:wizard:team")}
    ELSE {choice_menu({"setup:wizard:team:assign:@", "setup:wizard:creators",
         "setup:wizard:model"}, "setup:wizard")}
render_setup_creators_page ==
    {choice_menu({"opportunities:creators:add", "setup:wizard:model"}, "setup:wizard")}
render_setup_opportunities_page ==
    {choice_menu({"opportunities:add", "setup:wizard:model"}, "setup:wizard")}
render_setup_summary_page == {setup_finish_menu}
render_first_day_plan_page ==
    {first_day_plan_menu({"setup:wizard", "setup:wizard:accounts", "setup:wizard:team",
         "setup:wizard:creators", "setup:wizard:opportunities", "opportunities:manager",
         "reports:daily", "team_activation", "production_status"})}
render_manager_setup_qa_page == {manager_setup_qa_menu}
render_placeholder_cleanup_page ==
    {choice_menu({"setup:wizard", "setup:cleanup:archive_placeholders",
         "setup:cleanup:link_unlinked_opportunity",
         "setup:cleanup:archive_unlinked_opportunity", "setup:cleanup:complete_placeholder",
         "demo:clear"}, "setup:wizard")}
render_demo_seed_page == {demo_seed_menu}
render_owner_daily_checklist_page == {owner_daily_checklist_menu}
render_team_onboarding_activation_page == {team_onboarding_activation_menu}
render_fortuna_action_log_page == {fortuna_action_log_menu}

-----------------------------------------------------------------------------
(* Help and the assistant                                                  *)
render_help_center_page(source_page) ==
    IF source_page = "help" THEN {help_center_menu({"help:@"}, "menu", "help_copilot")}
    ELSE {help_center_menu({"help_from:recovery_center:topic:@"}, source_page,
         "help_copilot_from:recovery_center")}
render_help_topic_page(source_page) == {page_menu(source_page)}
render_help_copilot_page(source_page, question) ==
    IF question THEN {help_feedback_menu(page, IF source_page = "help" THEN "help_copilot"
    ELSE "help_copilot_from:recovery_center") : page \in next_actions}
    ELSE IF source_page = "help" THEN {help_copilot_menu("help",
         "help_copilot:question:@")}
    ELSE {help_copilot_menu(source_page, "help_copilot_from:recovery_center:question:@")}

-----------------------------------------------------------------------------
(* Errors, reports and button health                                       *)
render_callback_error_page(page) ==
    {[buttons |-> {"menu", "reliability", page}, back |-> NoBack]}
render_callback_problem_reported_page ==
    {[buttons |-> {"menu", "button_health", "callback_failure_review"}, back |-> NoBack]}
render_report_problem_page ==
    {Keys({"settings:report_problem:start", "button_health"}, "settings")}
render_problem_report_saved_page ==
    {Keys({"settings:report_problem:start", "button_health"}, "settings")}
render_debug_last_error_page == {page_menu("settings")}
render_button_health_report_page ==
    {page_menu("settings"), Keys({"button_health:run", "button_health",
         "button_health:details", "callback_failure_review", "debug_last_error",
         "settings:chat_cleanup:clean"}, "settings")}
callback_failure_markup(back_to) ==
    Keys({"callback_failure_review:problems", "callback_failure_review:history",
         "callback_failure_review:details", "button_health:run"}, back_to)
render_callback_failure_review_page(details) ==
    {callback_failure_markup(IF details THEN "callback_failure_review" ELSE "settings")}

-----------------------------------------------------------------------------
(* What the agency knows of itself                                         *)
awareness_menu(back_to) ==
    Keys({"agency_awareness", "agency_awareness:active", "agency_awareness:missing",
         "agency_awareness:not_connected", "agency_awareness:evidence",
         "agency_awareness:details"}, back_to)
render_agency_active_areas_page == {awareness_menu("agency_awareness")}
render_agency_missing_page == {awareness_menu("agency_awareness")}
render_agency_not_connected_page == {awareness_menu("agency_awareness")}
render_agency_evidence_page == {awareness_menu("agency_awareness")}
render_agency_awareness_details_page == {awareness_menu("agency_awareness")}
render_agency_awareness_page(details) ==
    IF details THEN render_agency_awareness_details_page
    ELSE {awareness_menu("owner_advanced")}

-----------------------------------------------------------------------------
(* Drift and plans                                                         *)
drift_menu(back_to) ==
    Keys({"drift:active", "drift:add", "drift:details", "drift:plans", "drift:resolved"},
         back_to)
plan_action_menu ==
    Keys({"drift:plans", "drift:plan:#:pause", "drift:plan:#:complete",
         "drift:plan:#:resume"}, "drift")
render_active_drift_page == {drift_menu("drift")}
render_drift_plans_page == {Keys({"drift:add", "drift:plan:#"}, "drift")}
render_add_plan_page == {Keys({"drift:add:@"}, "drift")}
render_drift_plan_added_page == {plan_action_menu}
render_drift_plan_detail_page == {plan_action_menu, drift_menu("drift:plans")}
render_drift_plan_status_page == {plan_action_menu, drift_menu("drift:plans")}
render_resolved_drift_page == {drift_menu("drift")}
render_drift_details_page == {drift_menu("drift")}
render_drift_page(details) ==
    IF details THEN render_drift_details_page
    ELSE {drift_menu("command_center:intelligence")}

-----------------------------------------------------------------------------
(* Reliability                                                             *)
reliability_menu(back_to) ==
    Keys({"reliability", "callback_failure_review:problems", "reliability:slow",
         "callback_failure_review:history", "reliability:jobs", "reliability:verify",
         "reliability:details"}, back_to)
render_reliability_center_page(details) ==
    {reliability_menu(IF details THEN "reliability" ELSE "owner_advanced")}
render_reliability_slow_page == {reliability_menu("reliability")}
render_reliability_jobs_page == {reliability_menu("reliability")}
render_reliability_history_page == {reliability_menu("reliability")}
render_reliability_verify_page == {reliability_menu("reliability")}
=============================================================================
