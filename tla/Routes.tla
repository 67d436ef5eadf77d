------------------------------- MODULE Routes -------------------------------
(***************************************************************************)
(* Which screen a page name opens (app/bot/screens/router.py), which names *)
(* are known, what a page requires and which page an operation ends on     *)
(* (app/bot/navigation.py), and which page is the parent of which          *)
(* (app/bot/navigation_stack.py).                                          *)
(***************************************************************************)
EXTENDS Naturals, Sequences, ScreensOwner, ScreensWork, ScreensInsight, ScreensSystem

-----------------------------------------------------------------------------
(* render_page: the screen of a page.                                       *)
\* The command center, recovery, platforms, the COO layer, reliability, search and AI.
command_pages ==
    "command_center" :> render_command_center_home
    @@ "command_center:refresh" :> render_command_center_refresh_page
    @@ "command_center:intelligence" :> render_intelligence_hub_page
    @@ "command_center:operations" :> render_operations_hub_page
    @@ "command_center:systems" :> render_systems_hub_page
    @@ "command_center:admin" :> render_admin_hub_page
    @@ "command_center:scores" :> render_scores_page
    @@ "command_center:score:@" :> render_score_detail_page
    @@ "owner_advanced" :> render_owner_advanced_page
    @@ "recovery_center" :> render_recovery_center_page(FALSE)
    @@ "recovery:details" :> render_recovery_center_page(TRUE)
    @@ "recovery:backup:run" :> render_backup_run_page
    @@ "recovery:history" :> render_backup_history_page
    @@ "recovery:storage" :> render_backup_storage_page("none")
    @@ "recovery:storage:@" :> render_backup_storage_page("s3")
    @@ "recovery:storage:manual" :> render_backup_storage_page("manual")
    @@ "recovery:restore:test" :> render_restore_test_page
    @@ "recovery:disaster_plan" :> render_disaster_plan_page(FALSE)
    @@ "recovery:disaster_plan:details" :> render_disaster_plan_page(TRUE)
    @@ "team_intelligence" :> render_team_intelligence_page(FALSE)
    @@ "team_intelligence:details" :> render_team_intelligence_page(TRUE)
    @@ "platforms" :> render_platform_connections_page(FALSE)
    @@ "platforms:details" :> render_platform_connections_page(TRUE)
    @@ "platforms:notifications" :> render_platform_notification_center_page
    @@ "platforms:alert_routing" :> render_alert_routing_center_page
    @@ [p \in {"platforms:alert_health", "platforms:alert_health:details"} |->
         render_alert_health_page]
    @@ [p \in {"platforms:notifications:@", "platforms:notifications:@:details",
         "platforms:notifications:@:learn_acted", "platforms:notifications:@:learn_ignored",
         "platforms:notifications:@:test"} |-> render_platform_notification_detail_page]
    @@ [p \in {"platforms:@:test_website", "platforms:@:connection", "platforms:@:stats",
         "platforms:@"} |-> render_platform_detail_page(FALSE)]
    @@ "platforms:@:details" :> render_platform_detail_page(TRUE)
    @@ "today_priorities" :> render_today_priorities_page
    @@ "setup_progress" :> render_setup_progress_page
    @@ "assistant_next" :> render_assistant_next_page
    @@ "start_here" :> render_start_here_page
    @@ "first_workspace" :> render_first_workspace_flow_page
    @@ "structure" :> render_structure_map_page
    @@ "coo" :> render_coo_dashboard_page
    @@ "coo:top5" :> render_today_top5_page
    @@ "coo:readiness" :> render_readiness_v2_page
    @@ "coo:briefing" :> render_coo_briefing_page(FALSE)
    @@ "coo:briefing:details" :> render_coo_briefing_page(TRUE)
    @@ "reliability" :> render_reliability_center_page(FALSE)
    @@ "reliability:details" :> render_reliability_center_page(TRUE)
    @@ "reliability:slow" :> render_reliability_slow_page
    @@ "reliability:jobs" :> render_reliability_jobs_page
    @@ "reliability:history" :> render_reliability_history_page
    @@ "reliability:verify" :> render_reliability_verify_page
    @@ [p \in {"search", "search:details"} |-> render_search_center_page]
    @@ [p \in {"search:run", "search:opportunity", "search:platform_signals",
         "search:coo_context"} |-> render_search_guided_page]
    @@ [p \in {"search:history", "search:history:rerun"} |-> render_search_history_page]
    @@ [p \in {"search:results", "search:results:attach", "search:results:ignore",
         "search:results:notification", "search:results:opportunity"} |->
         render_search_results_page]
    @@ "search:settings" :> render_search_settings_page
    @@ "ai_brain" :> render_ai_brain_page(FALSE)
    @@ "ai_brain:details" :> render_ai_brain_page(TRUE)
    @@ "ai_brain:settings" :> render_ai_settings_page
    @@ "ai_brain:critic" :> render_ai_critic_status_page
    @@ "ai_brain:evidence" :> render_ai_evidence_summary_page
    @@ "ai_brain:search" :> render_ai_search_summary_page
    @@ "ai_brain:coo" :> render_ai_coo_briefing_page
    @@ "ai_brain:opportunity" :> render_ai_opportunity_explanation_page

\* Awareness, drift, decisions, the set-up and help.
agency_pages ==
    "agency_awareness" :> render_agency_awareness_page(FALSE)
    @@ "agency_awareness:active" :> render_agency_active_areas_page
    @@ "agency_awareness:missing" :> render_agency_missing_page
    @@ "agency_awareness:not_connected" :> render_agency_not_connected_page
    @@ "agency_awareness:evidence" :> render_agency_evidence_page
    @@ "agency_awareness:details" :> render_agency_awareness_page(TRUE)
    @@ "drift" :> render_drift_page(FALSE)
    @@ "drift:active" :> render_active_drift_page
    @@ "drift:plans" :> render_drift_plans_page
    @@ "drift:add" :> render_add_plan_page
    @@ "drift:add:@" :> render_drift_plan_added_page
    @@ "drift:resolved" :> render_resolved_drift_page
    @@ "drift:details" :> render_drift_page(TRUE)
    @@ [p \in {"drift:plan:#:complete", "drift:plan:#:pause", "drift:plan:#:resume"} |->
         render_drift_plan_status_page]
    @@ "drift:plan:#" :> render_drift_plan_detail_page
    @@ "decision:top" :> render_decision_top_priority_page
    @@ "decision:details" :> render_decision_details_page
    @@ "decision:feedback:@" :> render_decision_feedback_page
    @@ [p \in {"decision:memory", "decision:memory:details", "decision:memory:@"} |->
         render_decision_memory_page]
    @@ "coo:load" :> render_load_balancer_page
    @@ "executive_mode" :> render_executive_mode_page
    @@ "manager_queue" :> render_manager_queue_page
    @@ "my_work" :> render_my_work_page
    @@ "owner_daily_checklist" :> render_owner_daily_checklist_page
    @@ "team_onboarding_activation" :> render_team_onboarding_activation_page
    @@ [p \in {"fortuna_action_log", "fortuna_action_log:@"} |->
         render_fortuna_action_log_page]
    @@ "agency_activation" :> render_agency_activation_page
    @@ [p \in {"agency_activation:blocker:@:#", "agency_activation:blocker:@:#:explain"}
         |-> render_activation_blocker_detail_page]
    @@ "agency_activation:accounts" :> render_account_setup_state_page
    @@ "agency_activation:@" :> render_activation_section_page
    @@ "setup:wizard" :> render_setup_wizard_page
    @@ "setup:wizard:model" :> render_setup_model_prompt_page
    @@ "setup:wizard:accounts" :> render_setup_accounts_page
    @@ "setup:wizard:accounts:platform:@" :> render_setup_account_input_page
    @@ "setup:wizard:team" :> render_setup_team_page(FALSE)
    @@ "setup:wizard:team:assign:@" :> render_setup_team_page(TRUE)
    @@ "setup:wizard:creators" :> render_setup_creators_page
    @@ "setup:wizard:opportunities" :> render_setup_opportunities_page
    @@ "setup:wizard:summary" :> render_setup_summary_page
    @@ "setup:cleanup" :> render_placeholder_cleanup_page
    @@ "first_day_plan" :> render_first_day_plan_page
    @@ "manager_qa" :> render_manager_setup_qa_page
    @@ "demo" :> render_demo_seed_page
    @@ "daily_experience" :> render_daily_experience_page
    @@ "performance" :> render_performance_page
    @@ "help" :> render_help_center_page("help")
    @@ "help_from:recovery_center:topic:@" :> render_help_topic_page("recovery_center")
    @@ "help_from:recovery_center" :> render_help_center_page("recovery_center")
    @@ "help:@" :> render_help_topic_page("help")
    @@ "help_copilot" :> render_help_copilot_page("help", FALSE)
    @@ "help_copilot_from:recovery_center:question:@" :>
         render_help_copilot_page("recovery_center", TRUE)
    @@ "help_copilot_from:recovery_center" :> render_help_copilot_page("recovery_center",
         FALSE)
    @@ [p \in {"help_copilot:question:@", "help_copilot:@"} |->
         render_help_copilot_page("help", TRUE)]

\* Health, the pages of a member and proxies.
member_pages ==
    "notification_group_pilot" :> render_notification_group_pilot_page
    @@ [p \in {"ui_self_test", "ui_self_test:details"} |-> render_ui_self_test_page]
    @@ [p \in {"button_health", "button_health:details"} |->
         render_button_health_report_page]
    @@ "callback_failure_review" :> render_callback_failure_review_page(FALSE)
    @@ [p \in {"callback_failure_review:problems", "callback_failure_review:history",
         "callback_failure_review:details"} |-> render_callback_failure_review_page(TRUE)]
    @@ "debug_last_error" :> render_debug_last_error_page
    @@ "callback_error:report" :> render_callback_problem_reported_page
    @@ "chatter_workspace" :> render_chatter_workspace_page
    @@ "my_models" :> render_my_models_page
    @@ "my_accounts" :> render_my_accounts_page
    @@ "my_opportunities" :> render_my_opportunities_page
    @@ "uploads" :> render_uploads_placeholder_page
    @@ "client_dashboard" :> render_client_dashboard_page
    @@ "my_reports" :> render_my_reports_page
    @@ "my_team" :> render_my_team_page
    @@ "team_qa" :> render_team_qa_page
    @@ "team_activation" :> render_team_activation_page
    @@ "team_qa:#" :> render_team_qa_detail_page
    @@ [p \in {"notification_digest", "notification_digest:generate"} |->
         render_notification_digest_mode_page]
    @@ [p \in {"automations:scheduled", "automations:scheduled:run_due"} |->
         render_scheduled_automations_page]
    @@ "automations:daily_autopilot" :> render_daily_autopilot_page
    @@ "proxies" :> render_proxies_home
    @@ "proxies:add" :> render_proxy_add_page
    @@ "proxies:advanced" :> render_proxy_advanced_page
    @@ "proxies:rotation_help" :> render_proxy_rotation_help_page
    @@ "proxies:cleanup_result" :> render_proxy_cleanup_result_page
    @@ "proxies:list" :> render_proxy_list_page
    @@ "proxies:entry_check" :> render_proxy_entry_check_page
    @@ "proxies:real_check_pilot" :> render_proxy_real_check_pilot_page
    @@ [p \in {"proxies:olympix", "proxies:olympix:manual"} |->
         render_olympix_proxy_wizard_page]
    @@ "proxies:olympix:paste" :> render_olympix_proxy_paste_page
    @@ "proxies:missing" :> render_accounts_missing_proxy_page
    @@ "proxies:simulation" :> render_proxy_simulation_page
    @@ "proxies:dashboard" :> render_infrastructure_dashboard_page
    @@ "proxy:#" :> render_proxy_detail_page
    @@ "proxy:#:manage" :> render_proxy_manage_page
    @@ "proxy:#:archive_confirm" :> render_proxy_archive_confirm_page
    @@ "proxy:#:archive_result" :> render_proxy_archive_result_page
    @@ "proxy:#:delete_confirm" :> render_proxy_delete_confirm_page
    @@ "proxy:#:delete_result" :> render_proxy_delete_result_page
    @@ "proxy:#:rotate_preview" :> render_proxy_rotation_preview_page
    @@ "proxy:#:rotated:#" :> render_proxy_rotation_result_page
    @@ "proxy:#:rollback_result:#" :> render_proxy_rollback_result_page
    @@ "proxy:#:rollback_empty" :> render_proxy_no_rollback_page
    @@ "proxy:#:check_result" :> render_proxy_check_result_page
    @@ "proxy:#:location" :> render_proxy_location_page
    @@ "proxy:#:advanced" :> render_proxy_detail_advanced_page
    @@ "proxy:#:imported" :> render_proxy_import_success_page
    @@ "proxy:#:assign" :> render_proxy_assign_account_page
    @@ "proxy:#:remove" :> render_proxy_remove_account_page
    @@ "proxy:#:accounts" :> render_proxy_assigned_accounts_page
    @@ "proxy:#:audit" :> render_proxy_audit_page
    @@ "proxy:#:history" :> render_proxy_check_history_page

\* Accounts, models, tasks and incidents.
work_pages ==
    "accounts" :> render_accounts_home
    @@ [p \in {"accounts:list", "accounts:attention"} |->
         render_account_list_page("accounts")]
    @@ "accounts:add" :> render_account_model_choice_page
    @@ "accounts:add:model:#" :> render_account_platform_choice_page
    @@ "accounts:add:model:#:platform:@" :> render_account_input_page
    @@ "accounts:by_model" :> render_accounts_by_model_page
    @@ "accounts:model:#" :> render_account_list_page("accounts:by_model")
    @@ "accounts:by_platform" :> render_accounts_by_platform_page
    @@ "accounts:platform:@" :> render_account_list_page("accounts:by_platform")
    @@ "account:#" :> render_account_detail_page
    @@ "account:#:audit" :> render_account_audit_page
    @@ "account:#:auth:enter" :> render_account_auth_prompt_page
    @@ "account:#:proxy:assign" :> render_account_proxy_assignment_page
    @@ "models" :> render_models_home
    @@ [p \in {"models:list", "models:search"} |-> render_model_list_page]
    @@ "models:dashboard" :> render_model_dashboard_page
    @@ "model:#" :> render_model_detail_page
    @@ "model:#:edit:@" :> render_model_field_edit_page
    @@ "model:#:edit" :> render_model_edit_page
    @@ "model:#:complete" :> render_model_completion_page
    @@ "model:#:team:assign:@" :> render_model_assignment_page
    @@ "model:#:team:remove" :> render_model_remove_assignment_page
    @@ "model:#:team" :> render_model_team_page
    @@ "model:#:audit" :> render_model_audit_page
    @@ "model:#:accounts" :> render_account_list_page("model:#")
    @@ "model:#:creators" :> render_model_creators_page
    @@ "model:#:opportunities" :> render_model_opportunities_page
    @@ "model:#:tasks" :> render_task_list_page("model:#")
    @@ "model:#:incidents" :> render_incident_list_page("model:#")
    @@ "tasks" :> render_tasks_home
    @@ [p \in {"tasks:list", "tasks:my", "tasks:assigned", "tasks:team", "tasks:overdue",
         "tasks:blocked", "tasks:escalated"} |-> render_task_list_page("tasks")]

\* Reports, recommendations, intelligence, predictions and learning.
insight_pages ==
    "task:#:assign" :> render_task_assignment_page
    @@ "task:#" :> render_task_detail_page
    @@ "incidents" :> render_incidents_home
    @@ [p \in {"incidents:list", "incidents:open", "incidents:my", "incidents:critical"} |->
         render_incident_list_page("incidents")]
    @@ "incident:#:assign" :> render_incident_assignment_page
    @@ "incident:#:timeline" :> render_incident_timeline_page
    @@ "incident:#" :> render_incident_detail_page
    @@ "reports" :> render_reports_home
    @@ [p \in {"reports:daily", "reports:daily:generate", "reports:daily:latest",
         "reports:daily:send_ops", "reports:daily:send_owner"} |->
         render_daily_briefing_page]
    @@ "reports:accountability" :> render_accountability_page
    @@ [p \in {"reports:intelligence", "reports:intelligence:generate",
         "reports:intelligence:latest", "reports:intelligence:send_hq"} |->
         render_intelligence_briefing_page]
    @@ "reports:workload" :> render_workload_intelligence_page
    @@ [p \in {"reports:digest", "reports:digest:generate", "reports:digest:preview",
         "reports:digest:send_hq", "reports:digest:send_ops", "reports:digest:schedule",
         "reports:digest:history"} |-> render_daily_digest_page]
    @@ "reports:executive" :> render_executive_dashboard_page
    @@ "reports:executive:recommendations" :> render_recommendations_page
    @@ "recommendation:#:why" :> render_recommendation_why_page
    @@ "recommendation:#" :> render_recommendation_detail_page
    @@ "reports:operations" :> render_operations_dashboard_page
    @@ "reports:manager" :> render_manager_command_page
    @@ "reports:chatter" :> render_chatter_dashboard_page
    @@ "reports:va" :> render_va_dashboard_page
    @@ "intelligence" :> render_intelligence_home
    @@ "intelligence:details" :> render_intelligence_details_page
    @@ "intelligence:quality" :> render_intelligence_quality_page(FALSE)
    @@ "intelligence:quality:details" :> render_intelligence_quality_page(TRUE)
    @@ "intelligence:quality:trends" :> render_decision_quality_trends_page(FALSE)
    @@ "intelligence:quality:trends:details" :> render_decision_quality_trends_page(TRUE)
    @@ "intelligence:quality:categories" :> render_category_trends_page
    @@ [p \in {"prediction:preview", "prediction:preview:details"} |->
         render_prediction_preview_page]
    @@ "prediction:feedback:@" :> render_prediction_feedback_page
    @@ "prediction:outcome:@" :> render_prediction_outcome_feedback_page
    @@ "reality:check" :> render_reality_check_page(FALSE)
    @@ "reality:check:details" :> render_reality_check_page(TRUE)
    @@ "reality:outcomes" :> render_prediction_outcomes_page
    @@ "reality:calibration" :> render_calibration_page
    @@ "reality:accuracy" :> render_accuracy_by_category_page
    @@ "decision:review" :> render_decision_review_page(FALSE)
    @@ "decision:review:details" :> render_decision_review_page(TRUE)
    @@ "owner_validation:@" :> render_owner_validation_page
    @@ "evidence:notes" :> render_evidence_notes_page(FALSE)
    @@ "evidence:notes:record" :> render_evidence_notes_page(TRUE)
    @@ [p \in {"knowledge:memory", "knowledge:memory:create"} |->
         render_knowledge_memory_page]
    @@ "decision:timeline" :> render_decision_timeline_page
    @@ "intelligence:runs" :> render_intelligence_runs_page
    @@ "intelligence:run_detail:#" :> render_intelligence_run_detail_page
    @@ "intelligence:signals" :> render_intelligence_signals_page
    @@ "intelligence:patterns" :> render_intelligence_patterns_page

\* Opportunities, creators, posts and leads.
market_pages ==
    "intelligence:trends" :> render_intelligence_trends_page
    @@ "intelligence:trends:details" :> render_intelligence_trend_details_page
    @@ "intelligence:learning" :> render_learning_center_page
    @@ "intelligence:learning:details" :> render_learning_details_page
    @@ [p \in {"intelligence:learning:playbooks", "intelligence:learning:recommended"} |->
         render_playbooks_page]
    @@ "intelligence:learning:outcome_memory" :> render_outcome_memory_page
    @@ "intelligence:learning:confidence" :> render_confidence_changes_page
    @@ "intelligence:learning:automation" :> render_automation_learning_page
    @@ "intelligence:learning:opportunity" :> render_opportunity_learning_page
    @@ "intelligence:learning:briefing" :> render_executive_memory_briefing_page
    @@ "playbook:#:history" :> render_playbook_history_page
    @@ "playbook:#" :> render_playbook_detail_page
    @@ "opportunities" :> render_opportunities_home
    @@ "opportunities:creators:add" :> render_creator_intake_page("start")
    @@ "opportunities:creators:add:platform:@" :> render_creator_intake_page("text")
    @@ "opportunities:posts:add" :> render_post_intake_page("start")
    @@ "opportunities:posts:add:model:#" :> render_post_intake_page("model")
    @@ "opportunities:posts:add:model:#:platform:@" :> render_post_intake_page("text")
    @@ "opportunities:add" :> render_opportunity_intake_page("start")
    @@ [p \in {"opportunities:add:source:@:#", "opportunities:add:source:manual"} |->
         render_opportunity_intake_page("chosen")]
    @@ "opportunities:add:source:@:platform:@" :> render_opportunity_intake_page("text")
    @@ [p \in {"opportunities:add:source:creator_watch",
         "opportunities:add:source:own_post"} |-> render_opportunity_intake_page("source")]
    @@ "opportunities:command" :> render_opportunity_command_center_page
    @@ "opportunities:score" :> render_social_opportunity_intelligence_page
    @@ "opportunities:best" :> render_best_opportunity_page
    @@ "opportunities:discovery" :> render_social_discovery_page
    @@ [p \in {"opportunities:discovery:add_source", "opportunities:discovery:paste_post"}
         |-> render_social_discovery_instruction_page]
    @@ "opportunities:discovery:leads" :> render_social_discovery_leads_page
    @@ "opportunities:profiles" :> render_comment_profile_leads_page
    @@ "opportunities:comments" :> render_comment_section_review_page
    @@ "opportunities:list" :> render_opportunity_list_page
    @@ "opportunities:creators" :> render_creator_watchlist_page
    @@ [p \in {"opportunities:posts", "opportunities:posts:attention"} |->
         render_post_watch_page]
    @@ "opportunities:manager" :> render_manager_opportunity_page
    @@ "opportunities:learning" :> render_opportunity_learning_v2_page
    @@ "opportunities:results" :> render_opportunity_results_page
    @@ "creator:#:assign_model" :> render_creator_model_assignment_page
    @@ "creator:#:assign_chatter" :> render_creator_chatter_assignment_page
    @@ "creator:#:priority" :> render_creator_priority_page
    @@ "creator:#:niche" :> {page_menu("creator:#")}
    @@ "creator:#:alert" :> render_creator_post_alert_prompt_page
    @@ "creator:#" :> render_creator_watch_detail_page
    @@ "creator_alert:#:reviewed" :> render_creator_post_alert_detail_page
    @@ "post:#:assign_chatter" :> render_post_chatter_assignment_page
    @@ "post:#:alert" :> render_own_post_alert_prompt_page
    @@ "post:#" :> render_post_watch_detail_page
    @@ "own_post_alert:#:reviewed" :> render_own_post_alert_detail_page
    @@ "opportunity:#:assign" :> render_opportunity_assignment_page
    @@ "opportunity:#:status" :> render_opportunity_status_page
    @@ "opportunity:#:record_result" :> render_opportunity_result_status_page
    @@ "opportunity:#:result:@" :> {page_menu("opportunity:#")}
    @@ "opportunity:#:strategies" :> render_opportunity_strategies_page
    @@ "opportunity:#" :> render_opportunity_detail_page
    @@ "opportunity_prediction:#:details" :> render_opportunity_prediction_detail_page
    @@ "social_score:#:assign" :> render_social_score_action_page("assign")
    @@ "social_score:#:create_opportunity" :>
         render_social_score_action_page("create_opportunity")
    @@ "social_score:#:record_result" :> render_social_score_action_page("record_result")
    @@ "social_score:#:skipped" :> render_social_score_action_page("skipped")
    @@ "social_score:#:strategies" :> render_social_score_action_page("strategies")
    @@ "social_lead:#:angles" :> render_social_discovery_lead_action_page("angles")
    @@ "social_lead:#:create_opportunity" :>
         render_social_discovery_lead_action_page("create_opportunity")
    @@ "social_lead:#:reviewed" :> render_social_discovery_lead_action_page("reviewed")
    @@ "social_lead:#:route_alert" :>
         render_social_discovery_lead_action_page("route_alert")
    @@ "social_lead:#:skipped" :> render_social_discovery_lead_action_page("skipped")
    @@ "social_lead:#" :> render_social_discovery_lead_detail_page
    @@ "social_profile:#:create_opportunity" :>
         render_social_profile_action_page("create_opportunity")
    @@ "social_profile:#:details" :> render_social_profile_action_page("details")
    @@ "social_profile:#:ignore" :> render_social_profile_action_page("ignore")
    @@ "social_profile:#:route_alert" :> render_social_profile_action_page("route_alert")
    @@ "social_profile:#:used" :> render_social_profile_action_page("used")
    @@ "social_profile:#:watch" :> render_social_profile_action_page("watch")
    @@ "social_profile:#" :> render_social_profile_detail_page

\* People, automations, status and settings.
system_pages ==
    [p \in {"users", "users:pending"} |-> render_users_page]
    @@ "user:#:assign_role" :> render_role_assignment_page("user:#:assign_role:@")
    @@ "user:#:remove_role" :> render_role_assignment_page("user:#:remove_role:@")
    @@ "user:#" :> render_user_detail_page
    @@ "roles" :> render_roles_page
    @@ "role:#:add_permission" :> render_permission_list_page("role:#:add_permission:@")
    @@ "role:#:remove_permission" :>
         render_permission_list_page("role:#:remove_permission:@")
    @@ [p \in {"role:#", "role:#:permissions"} |-> render_role_detail_page]
    @@ "permissions" :> render_default_permissions_page
    @@ "automations" :> render_automations_home
    @@ "automations:rules" :> render_automation_rules_page
    @@ "automations:templates" :> render_automation_templates_page
    @@ "automations:approvals" :> render_automation_approvals_page
    @@ [p \in {"automations:runs", "automation:#:runs"} |-> render_automation_runs_page]
    @@ "automations:health" :> render_automation_health_page
    @@ "automation:#" :> render_automation_rule_detail_page
    @@ "automation:#:simulations" :> render_automation_rule_simulations_page
    @@ "automation:#:rollback" :> render_automation_rollback_page
    @@ "approval:#" :> render_automation_approval_detail_page
    @@ "automation_run:#" :> render_automation_run_detail_page
    @@ "automation_step:#" :> render_automation_step_detail_page
    @@ "automations:simulations" :> render_simulation_runs_page
    @@ [p \in {"simulation:#", "simulation:#:affected"} |->
         render_simulation_run_detail_page]
    @@ [p \in {"audit_logs", "audit_logs:details", "audit_logs:issues"} |->
         render_audit_logs_page]
    @@ [p \in {"bot_status", "production_status", "bot_status:details"} |->
         render_bot_status_page]
    @@ "production_observability" :> render_production_observability_page(FALSE)
    @@ "production_observability:details" :> render_production_observability_page(TRUE)
    @@ "bot_instance_status" :> render_botstatus_page(FALSE)
    @@ "bot_instance_status:details" :> render_botstatus_page(TRUE)
    @@ "integrity" :> render_integrity_page(FALSE)
    @@ "integrity:details" :> render_integrity_page(TRUE)
    @@ [p \in {"settings:report_problem", "settings:report_problem:start"} |->
         render_report_problem_page]
    @@ "settings:report_problem:saved" :> render_problem_report_saved_page
    @@ "availability" :> render_availability_page
    @@ "availability:team" :> render_team_availability_page
    @@ "notification_targets" :> render_notification_targets_page
    @@ "notification_group_setup" :> render_notification_group_setup_page
    @@ "notification_routing" :> render_notification_routing_page
    @@ "notification_targets:routing_test" :> render_notification_routing_test_page
    @@ "notification_target:#:purpose" :> render_notification_target_purpose_page
    @@ "notification_target:#" :> render_notification_target_detail_page
    @@ "settings" :> {settings_menu}

\* A page nothing renders: an empty face with Back to the main menu.
placeholder == {page_menu("menu")}

routed_screens ==
    command_pages @@ agency_pages @@ member_pages @@ work_pages @@ insight_pages @@ market_pages
    @@ system_pages

\* The screens screen_for_page chooses without render_page.
own_pages ==
    "dashboard" :> render_dashboard
    @@ "settings:chat_cleanup" :> render_chat_cleanup_page(FALSE)
    @@ "settings:chat_cleanup:details" :> render_chat_cleanup_page(TRUE)

\* The pages the button handler answers itself, starting a job in the background.
started_pages ==
    "ui_self_test:run" :> render_ui_self_test_page
    @@ "button_health:run" :> render_button_health_report_page
    @@ "recovery:backup:run" :> render_backup_job_started_page
    @@ "recovery:restore:test" :> render_restore_job_started_page
    @@ "recovery:storage:test:#" :> render_backup_storage_page("s3")

screens == routed_screens @@ own_pages

-----------------------------------------------------------------------------
(* _perform_admin_action: the pages an operation may end on. What it writes   *)
(* is in the module of the service it calls.                                 *)
\* Storage, set-up, activation and the daily run.
setup_lands ==
    "callback_error:report" :> {"callback_error:report"}
    @@ "settings:chat_cleanup:toggle" :> {"settings:chat_cleanup"}
    @@ "recovery:storage:@:activate" :> {"recovery:storage:@"}
    @@ "recovery:storage:test:#" :> {"recovery:storage", "recovery:storage:@"}
    @@ "recovery:storage:remove:#" :> {"recovery:storage"}
    @@ "setup:wizard:start" :> {"setup:wizard"}
    @@ [p \in {"setup:cleanup:archive_placeholders",
         "setup:cleanup:link_unlinked_opportunity",
         "setup:cleanup:archive_unlinked_opportunity"} |-> {"setup:cleanup"}]
    @@ "setup:cleanup:complete_placeholder" :> {"model:#:complete", "setup:cleanup"}
    @@ "first_workspace:skip_team" :> {"first_workspace"}
    @@ "help_feedback:#:@" :> {"help_copilot"}
    @@ "coo:scan" :> {"coo:top5"}
    @@ [p \in {"agency_activation:scan", "agency_activation:daily_cycle"} |->
         {"agency_activation"}]
    @@ "agency_activation:blocker:@:#:fix" :> blocker_pages \cup {"agency_activation:@"}
    @@ [p \in {"agency_activation:blocker:@:#:skip",
         "agency_activation:blocker:@:#:not_needed"} |-> {"agency_activation:@"}]
    @@ [p \in {"automations:daily_autopilot:toggle", "automations:daily_autopilot:run"} |->
         {"automations:daily_autopilot"}]
    @@ "owner_daily_checklist:run_daily_cycle" :> {"owner_daily_checklist"}
    @@ "owner_daily_checklist:fix_top" :> blocker_pages \cup {"agency_activation"}
    @@ "setup:wizard:finish" :> {"setup:wizard:summary"}
    @@ "setup:wizard:team:assign:@:#" :> {"setup:wizard:team"}
    @@ [p \in {"demo:create", "demo:clear"} |-> {"demo"}]

\* Availability, team questions and automations.
automation_lands ==
    "availability:set:@" :> {"availability"}
    @@ "team_qa:#:@" :> {"team_qa", "team_qa:#"}
    @@ "automations:create" :> {"automation:#"}
    @@ "automation:#:simulate" :> {"simulation:#"}
    @@ "automation:#:request_approval" :> {"approval:#", "automation:#"}
    @@ [p \in {"automation:#:activate", "automation:#:pause", "automation:#:resume",
         "automation:#:retire"} |-> {"automation:#"}]
    @@ "automation:#:run_now" :> {"automation:#", "automation_run:#"}
    @@ [p \in {"approval:#:approve", "approval:#:reject"} |-> {"approval:#"}]
    @@ [p \in {"automations:simulate:proxy_repair", "automations:simulate:daily_briefing",
         "simulation:#:approve", "simulation:#:reject"} |-> {"simulation:#"}]

\* Recommendations, playbooks, scans and creators.
insight_lands ==
    [p \in {"recommendation:#:feedback:@", "recommendation:#:create_automation"} |->
         {"recommendation:#:why"}]
    @@ [p \in {"recommendation:#:acknowledge", "recommendation:#:dismiss",
         "recommendation:#:resolve"} |-> {"recommendation:#"}]
    @@ "recommendation:#:jump" :> {"account:#", "incident:#", "model:#", "proxy:#",
         "reports:executive:recommendations"}
    @@ "playbook:#:suggest" :> {"playbook:#:history"}
    @@ "playbook:#:feedback:@" :> {"playbook:#"}
    @@ [p \in {"intelligence:run:full", "intelligence:run:@"} |-> {"intelligence:runs"}]
    @@ [p \in {"creator:#:assign_me", "creator:#:assign_model:#", "creator:#:assign_chatter:#",
         "creator:#:priority:@", "creator:#:disable", "creator:#:archive"} |-> {"creator:#"}]
    @@ "creator:#:opportunity" :> {"creator:#", "opportunity:#"}

\* Posts, opportunities, tasks and incidents.
work_lands ==
    [p \in {"post:#:opportunity", "post:#:record_result"} |-> {"opportunity:#", "post:#"}]
    @@ [p \in {"post:#:assign_chatter:#", "post:#:status:recent"} |-> {"post:#"}]
    @@ [p \in {"opportunity:#:score", "opportunity:#:assign_me", "opportunity:#:assign:#",
         "opportunity:#:status:@", "opportunity:#:mark_posted", "opportunity:#:reject"} |->
         {"opportunity:#"}]
    @@ "opportunity:#:strategies:regenerate" :> {"opportunity:#:strategies"}
    @@ "opportunity:#:create_task" :> {"opportunity:#", "task:#"}
    @@ [p \in {"tasks:create", "task:#:start", "task:#:block", "task:#:complete",
         "task:#:archive", "task:#:escalate", "task:#:assign:#"} |-> {"task:#"}]
    @@ [p \in {"incidents:create", "incident:#:assign:#", "incident:#:escalate",
         "incident:#:investigate", "incident:#:resolve", "incident:#:archive"} |->
         {"incident:#"}]

\* Proxies.
proxy_lands ==
    "proxies:create" :> {"proxies:olympix:paste"}
    @@ "proxies:cleanup_placeholders" :> {"proxies:cleanup_result"}
    @@ "proxy:#:rotate" :> {"proxy:#:rotated:#"}
    @@ "proxy:#:rollback" :> {"proxy:#:rollback_empty", "proxy:#:rollback_result:#"}
    @@ [p \in {"proxy:#:check:simulated", "proxy:#:check:real"} |->
         {"proxy:#:check_result"}]
    @@ [p \in {"proxy:#:verify", "proxy:#:repair", "proxy:#:enable_real",
         "proxy:#:disable_real", "proxy:#:rotate_until_match", "proxy:#:assign:#",
         "proxy:#:remove:#"} |-> {"proxy:#"}]
    @@ [p \in {"proxy:#:disable", "proxy:#:reactivate"} |-> {"proxy:#:manage"}]
    @@ "proxy:#:archive" :> {"proxy:#:archive_result"}
    @@ "proxy:#:delete" :> {"proxy:#:delete_confirm", "proxy:#:delete_result"}

\* Accounts and models.
account_lands ==
    "account:#:auth:start" :> {"account:#:auth:enter"}
    @@ [p \in {"account:#:auth:connected", "account:#:auth:needs_login",
         "account:#:proxy:assign_best", "account:#:proxy:assign:#", "account:#:proxy:remove",
         "account:#:disable", "account:#:archive"} |-> {"account:#"}]
    @@ [p \in {"models:create", "model:#:archive", "model:#:status:@"} |-> {"model:#"}]
    @@ [p \in {"model:#:team:assign:@:#", "model:#:team:remove:@:#"} |-> {"model:#:team"}]

\* Users, roles and notification targets.
people_lands ==
    [p \in {"user:#:approve", "user:#:deny", "user:#:disable", "user:#:reactivate",
         "user:#:promote_owner", "user:#:demote_owner", "user:#:assign_role:@",
         "user:#:remove_role:@"} |-> {"user:#"}]
    @@ [p \in {"role:#:add_permission:@", "role:#:remove_permission:@"} |-> {"role:#",
         "roles"}]
    @@ "notification_targets:add" :> {"notification_target:#"}
    @@ [p \in {"notification_routing:mode:@", "notification_targets:test:@"} |->
         {"notification_routing"}]
    @@ [p \in {"notification_pilot:creator_alert", "notification_pilot:own_post_alert"} |->
         {"notification_group_pilot"}]
    @@ "notification_targets:add_current" :> {"notification_target:#:purpose"}
    @@ "notification_targets:routing_test" :> {"notification_targets:routing_test"}
    @@ [p \in {"notification_target:#:disable", "notification_target:#:test",
         "notification_target:#:send_test", "notification_target:#:purpose:@"} |->
         {"notification_target:#"}]

operations ==
    setup_lands @@ automation_lands @@ insight_lands @@ work_lands @@ proxy_lands
    @@ account_lands @@ people_lands

Starts(page, prefix) ==
    /\ Len(page) >= Len(prefix)
    /\ SubSeq(page, 1, Len(prefix)) = prefix

\* A name below a record that is gone, or below a proxy that is archived or a placeholder,
\* ends on the list of the records.
record_lists ==
    {[below |-> "automation:#:", list |-> "automations:rules"],
     [below |-> "approval:#:", list |-> "automations:approvals"],
     [below |-> "simulation:#:", list |-> "automations:simulations"],
     [below |-> "recommendation:#:", list |-> "reports:executive:recommendations"],
     [below |-> "playbook:#:", list |-> "intelligence:learning:playbooks"],
     [below |-> "creator:#:", list |-> "opportunities:creators"],
     [below |-> "post:#:", list |-> "opportunities:posts"],
     [below |-> "opportunity:#:", list |-> "opportunities:list"],
     [below |-> "task:#:", list |-> "tasks:list"],
     [below |-> "incident:#:", list |-> "incidents:list"],
     [below |-> "proxy:#:", list |-> "proxies:list"],
     [below |-> "account:#:", list |-> "accounts:list"],
     [below |-> "model:#:", list |-> "models:list"],
     [below |-> "user:#:", list |-> "user:#"],
     [below |-> "notification_target:#:", list |-> "notification_targets"]}

\* Where a name ends: an operation on its page, any other name on the page it names.
Lands(page) ==
    (IF page \in DOMAIN operations THEN operations[page] ELSE {page})
    \cup {r.list : r \in {r \in record_lists : Starts(page, r.below)}}

\* Pages that write while they are rendered: they send, decide, record or review.
acting_pages ==
    {"platforms:@:test_website", "platforms:notifications:@:test",
     "platforms:notifications:@:learn_acted", "platforms:notifications:@:learn_ignored",
     "search:history:rerun", "search:results:attach", "search:results:ignore",
     "search:results:notification", "search:results:opportunity", "drift:add:@",
     "drift:plan:#:complete", "drift:plan:#:pause", "drift:plan:#:resume",
     "decision:feedback:@", "prediction:feedback:@", "prediction:outcome:@",
     "owner_validation:@", "evidence:notes:record", "knowledge:memory:create",
     "notification_digest:generate", "automations:scheduled:run_due",
     "reports:daily:send_owner", "reports:daily:send_ops", "reports:intelligence:send_hq",
     "reports:digest:send_hq", "reports:digest:send_ops", "social_score:#:assign",
     "social_score:#:create_opportunity", "social_score:#:record_result",
     "social_score:#:skipped", "social_lead:#:create_opportunity", "social_lead:#:reviewed",
     "social_lead:#:route_alert", "social_lead:#:skipped",
     "social_profile:#:create_opportunity", "social_profile:#:ignore",
     "social_profile:#:route_alert", "social_profile:#:used", "social_profile:#:watch"}

-----------------------------------------------------------------------------
(* screen_for_page: the pages it renders and the ones it takes for home.     *)

PAGE_TITLES ==
    {"users", "models", "roles", "accounts", "proxies", "tasks", "incidents", "reports",
     "intelligence", "opportunities", "automations", "settings"}

\* The names screen_for_page passes on to render_page; every other one shows home.
routed_pages ==
    PAGE_TITLES \cup
    {"permissions", "notification_group_setup", "notification_group_pilot",
     "notification_routing", "bot_status", "bot_instance_status", "production_status",
     "production_observability", "integrity", "integrity:details", "owner_advanced",
     "recovery_center", "today_priorities", "setup_progress", "assistant_next", "start_here",
     "first_workspace", "debug_last_error", "owner_daily_checklist",
     "team_onboarding_activation", "executive_mode", "manager_queue", "my_work",
     "daily_experience", "performance", "help", "structure", "my_models", "my_accounts",
     "my_opportunities", "chatter_workspace", "uploads", "client_dashboard", "my_reports",
     "my_team", "team_qa", "manager_qa", "team_activation", "first_day_plan", "help_copilot",
     "notification_digest"}

routed_prefixes ==
    {"audit_logs", "accounts:", "account:", "tasks:", "task:", "incidents:", "incident:",
     "reports:", "proxies:", "proxy:", "recommendation:", "intelligence", "playbook:",
     "opportunities", "opportunity:", "social_score:", "social_lead:", "social_profile:",
     "creator:", "post:", "automations:", "automation:", "automation_run:",
     "automation_step:", "approval:", "simulation:", "models:", "model:", "users:", "user:",
     "role:", "notification_targets", "notification_target:", "notification_pilot:",
     "recovery:", "ui_self_test", "button_health", "callback_failure_review",
     "callback_error:report", "settings:report_problem", "settings:chat_cleanup",
     "fortuna_action_log", "coo", "decision:", "owner_validation:", "evidence:", "knowledge:",
     "search", "ai_brain", "command_center", "agency_awareness", "drift", "reliability",
     "prediction:", "reality:", "availability", "onboarding", "setup:", "agency_activation",
     "demo", "help:", "help_from:", "help_copilot:", "help_copilot_from:", "help_feedback:",
     "team_qa:", "notification_digest:", "platforms"}

Routed(page) ==
    \/ page \in routed_pages
    \/ \E prefix \in routed_prefixes : Starts(page, prefix)

-----------------------------------------------------------------------------
(* permissions_for_page: the first rule that fits says what a page requires.  *)

Roles ==
    {"Owner", "Admin", "Manager", "VA", "Chatter Manager", "Senior Chatter", "Chatter",
     "Viewer", "Model/Client"}

ROLE_PERMISSIONS ==
    "Owner" :> {"*"}
    @@ "Admin" :> {"view_dashboard", "manage_users", "manage_roles", "manage_accounts",
                   "manage_proxies", "manage_tasks", "manage_incidents", "manage_reports",
                   "manage_automations", "view_audit_logs"}
    @@ "Manager" :> {"view_dashboard", "manage_accounts", "manage_tasks", "manage_incidents",
                     "manage_reports", "manage_automations", "resolve_incidents"}
    @@ "VA" :> {"view_dashboard", "manage_tasks", "upload_content"}
    @@ "Chatter Manager" :> {"view_dashboard", "view_chatter_dashboard",
                             "manage_chatter_team", "approve_content"}
    @@ "Senior Chatter" :> {"view_dashboard", "view_chatter_dashboard", "approve_content",
                            "upload_content"}
    @@ "Chatter" :> {"view_dashboard", "view_chatter_dashboard", "upload_content"}
    @@ "Viewer" :> {"view_dashboard"}
    @@ "Model/Client" :> {"view_dashboard", "approve_content"}

\* A rule: the pages of these names, or whose name starts so, need one of these.
Rule(names, prefixes, needs) ==
    [names |-> names, prefixes |-> prefixes, needs |-> needs]

Open == {}

\* The last word, for the pages of these names.
PAGE_PERMISSIONS ==
    <<Rule({"dashboard", "models", "daily_experience", "performance", "first_day_plan",
           "owner_daily_checklist", "fortuna_action_log", "coo", "ai_brain",
           "executive_mode", "my_work"}, {}, {"view_dashboard"}),
      Rule({"users", "team_qa", "manager_qa", "team_onboarding_activation"}, {},
           {"manage_users"}),
      Rule({"roles", "settings", "production_status"}, {}, {"manage_roles"}),
      Rule({"accounts"}, {}, {"manage_accounts"}),
      Rule({"proxies"}, {}, {"manage_proxies"}),
      Rule({"tasks", "manager_queue"}, {}, {"manage_tasks"}),
      Rule({"incidents"}, {}, {"manage_incidents"}),
      Rule({"reports"}, {}, {"manage_reports"}),
      Rule({"automations"}, {}, {"manage_automations"}),
      Rule({"audit_logs"}, {}, {"view_audit_logs"})>>

permission_rules ==
    <<Rule({"account:#:auth:start", "account:#:auth:enter", "account:#:auth:connected",
           "account:#:auth:needs_login"}, {}, Open),
      Rule({"account:#:proxy:assign", "account:#:proxy:assign:#",
           "account:#:proxy:assign_best", "account:#:proxy:remove"}, {"proxies:", "proxy:"},
           {"manage_proxies"}),
      Rule({}, {"tasks:", "task:"}, {"manage_tasks"}),
      Rule({}, {"incidents:", "incident:"}, {"manage_incidents"}),
      Rule({}, {"reports:chatter"}, {"view_chatter_dashboard", "manage_chatter_team"}),
      Rule({}, {"reports:va"}, {"upload_content", "manage_tasks", "view_dashboard"}),
      Rule({}, {"reports:"}, {"manage_reports"}),
      Rule({"availability:team"}, {}, {"manage_users", "manage_reports"}),
      Rule({"help", "help_copilot", "structure"}, {"availability", "onboarding", "help:",
           "help_from:", "help_copilot:", "help_copilot_from:", "help_feedback:"}, Open),
      Rule({"start_here", "first_workspace", "owner_advanced", "today_priorities",
           "setup_progress", "assistant_next"}, {}, {"view_dashboard", "manage_reports"}),
      Rule({"recovery_center"}, {"recovery:"}, {"manage_roles"}),
      Rule({"team_intelligence"}, {"team_intelligence:"}, {"manage_reports", "manage_users",
           "manage_tasks"}),
      Rule({}, {"coo"}, {"view_dashboard", "manage_reports", "manage_tasks",
           "manage_users"}),
      Rule({"executive_mode"}, {}, {"view_dashboard", "manage_reports"}),
      Rule({"manager_queue"}, {}, {"manage_tasks", "manage_reports", "manage_users"}),
      Rule({"my_work"}, {}, {"view_dashboard", "view_chatter_dashboard", "manage_tasks"}),
      Rule({}, {"setup:", "demo", "agency_activation"}, {"manage_accounts", "manage_users"}),
      Rule({}, {"owner_daily_checklist", "fortuna_action_log"}, {"view_dashboard",
           "manage_accounts", "manage_users"}),
      Rule({"team_onboarding_activation"}, {}, {"manage_users"}),
      Rule({"daily_experience", "performance", "my_models", "client_dashboard",
           "my_reports", "my_team", "uploads", "chatter_workspace"}, {}, {"view_dashboard"}),
      Rule({"my_accounts"}, {}, {"manage_accounts", "upload_content", "view_dashboard"}),
      Rule({"my_opportunities"}, {}, {"view_chatter_dashboard", "manage_tasks",
           "manage_reports", "view_dashboard"}),
      Rule({}, {"team_qa"}, {"manage_users"}),
      Rule({"manager_qa", "team_activation"}, {}, {"manage_users", "manage_reports"}),
      Rule({}, {"notification_digest", "recommendation:", "intelligence", "prediction:",
           "reality:", "decision:", "owner_validation:", "evidence:", "knowledge:", "search",
           "playbook:"}, {"manage_reports", "view_dashboard"}),
      Rule({"opportunities:manager"}, {"opportunities:creators:add",
           "opportunities:posts:add", "opportunities:add", "creator:", "post:"},
           {"manage_reports", "manage_tasks", "manage_chatter_team"}),
      Rule({}, {"opportunities", "opportunity:", "opportunity_prediction:", "social_score:",
           "social_lead:", "social_profile:"}, {"manage_reports", "manage_tasks",
           "view_chatter_dashboard", "view_dashboard"}),
      Rule({}, {"automations:", "automation:", "automation_run:", "automation_step:",
           "approval:", "simulation:"}, {"manage_automations"}),
      Rule({}, {"accounts:", "account:"}, {"manage_accounts"}),
      Rule({}, {"models"}, {"view_dashboard"}),
      Rule({"model:#:tasks"}, {}, {"manage_tasks"}),
      Rule({"model:#:incidents"}, {}, {"manage_incidents"}),
      Rule({}, {"model:"}, {"view_dashboard"}),
      Rule({}, {"users:", "user:"}, {"manage_users"}),
      Rule({"permissions"}, {"role:"}, {"manage_roles"}),
      Rule({"notification_group_setup", "notification_group_pilot", "notification_routing"},
           {"notification_pilot:", "notification_targets", "notification_target:"},
           {"manage_reports", "manage_roles"}),
      Rule({"callback_failure_review", "debug_last_error"}, {"ui_self_test",
           "button_health"}, {"manage_roles"}),
      Rule({}, {"audit_logs"}, {"view_audit_logs"}),
      Rule({}, {"callback_error:report"}, Open),
      Rule({}, {"settings:chat_cleanup", "settings:report_problem"}, {"manage_roles"}),
      Rule({}, {"ai_brain"}, {"view_dashboard", "manage_reports", "manage_roles"}),
      Rule({"production_status"}, {"bot_status", "production_observability",
           "bot_instance_status"}, {"view_dashboard", "manage_reports", "manage_roles"})>>

\* The first rule that fits a page, if there is one.
FirstRule(rules, page) ==
    LET fit == {i \in DOMAIN rules : \/ page \in rules[i].names
                                     \/ \E x \in rules[i].prefixes : Starts(page, x)}
    IN IF fit = {} THEN {} ELSE {rules[CHOOSE i \in fit : \A j \in fit : i <= j]}

\* An empty requirement lets everybody in.
permissions_for_page(page) ==
    UNION {rule.needs : rule \in FirstRule(permission_rules \o PAGE_PERMISSIONS, page)}

owner_only_pages ==
    {"production_observability", "integrity", "integrity:details", "bot_instance_status",
     "ui_self_test", "ui_self_test:run", "button_health", "button_health:run",
     "callback_failure_review", "debug_last_error"}

\* Every keyboard that can be shown, and every name one offers or an operation ends on.
keyboards ==
    (UNION {screens[p] : p \in DOMAIN screens})
    \cup (UNION {started_pages[p] : p \in DOMAIN started_pages})
    \cup (UNION {render_main_menu(r) : r \in Roles})

\* With the names the handler uses itself.
page_names ==
    {"menu", "dashboard", "reliability"}
    \cup DOMAIN screens \cup DOMAIN started_pages \cup DOMAIN operations
    \cup (UNION {k.buttons \cup {k.back} : k \in keyboards})
    \cup (UNION {operations[p] : p \in DOMAIN operations})
    \cup {r.list : r \in record_lists}

\* The two checks of screen_for_page, once per page.
owner_only == {p \in page_names : p \in owner_only_pages \/ Starts(p, "ai_brain")}
page_needs == [p \in page_names |-> permissions_for_page(p)]
routed == {p \in page_names : p = "dashboard" \/ Routed(p)}

\* The owner may open every page.
May(role, page) ==
    role # "Owner" =>
        /\ page \notin owner_only
        /\ page_needs[page] = Open \/ page_needs[page] \cap ROLE_PERMISSIONS[role] # {}

-----------------------------------------------------------------------------
(* parent_page_for: the first rule that fits names the parent.               *)

ROOT_LEVEL_SCREENS ==
    {"menu", "command_center", "start_here", "today_priorities", "setup_progress", "proxies",
     "opportunities", "help", "owner_advanced"}

MORE_CHILDREN ==
    {"intelligence", "automations", "reports", "settings", "production_observability",
     "users", "executive_mode", "coo", "coo:briefing", "recovery_center",
     "team_intelligence", "platforms", "search", "ai_brain", "agency_awareness",
     "reliability"}

Below(names, prefixes, parent) ==
    [names |-> names, prefixes |-> prefixes, parent |-> parent]

parent_rules ==
    <<Below(ROOT_LEVEL_SCREENS, {}, "menu"),
      Below({}, {"command_center:score:"}, "command_center:scores"),
      Below({"command_center:intelligence", "command_center:operations",
            "command_center:systems", "command_center:admin", "command_center:scores"}, {},
            "command_center"),
      Below({}, {"command_center:"}, "menu"),
      Below({}, {"help_from:recovery_center", "help_copilot_from:recovery_center"},
            "recovery_center"),
      Below({"help_copilot"}, {"help:", "help_copilot:"}, "help"),
      Below({"ui_self_test", "ui_self_test:run", "ui_self_test:details", "button_health",
            "button_health:run", "button_health:details", "callback_failure_review",
            "debug_last_error", "production_status"}, {}, "settings"),
      Below({}, {"callback_failure_review:"}, "callback_failure_review"),
      Below({"models:list", "models:dashboard", "models:search"}, {}, "models"),
      Below({"first_workspace"}, {}, "start_here"),
      Below({"coo:readiness"}, {}, "agency_activation"),
      Below({"coo", "coo:briefing"}, {}, "owner_advanced"),
      Below({"coo:briefing:details", "decision:top", "decision:details",
            "intelligence:quality"}, {"decision:memory"}, "coo:briefing"),
      Below({"intelligence:quality:details", "intelligence:quality:trends"}, {},
            "intelligence:quality"),
      Below({"intelligence:quality:trends:details", "intelligence:quality:categories"},
            {"prediction:"}, "intelligence:quality:trends"),
      Below({"drift"}, {}, "command_center:intelligence"),
      Below({"drift:active", "drift:plans", "drift:add", "drift:resolved", "drift:details"},
            {}, "drift"),
      Below({}, {"drift:add:"}, "drift:add"),
      Below({}, {"drift:plan:"}, "drift:plans"),
      Below({"reality:check"}, {}, "intelligence:quality"),
      Below({"decision:review", "decision:timeline", "knowledge:memory"}, {"reality:"},
            "reality:check"),
      Below({"decision:review:details", "evidence:notes"}, {"owner_validation:"},
            "decision:review"),
      Below({}, {"evidence:notes:"}, "evidence:notes"),
      Below({}, {"knowledge:memory:"}, "knowledge:memory"),
      Below({}, {"coo:"}, "coo"),
      Below(MORE_CHILDREN, {}, "owner_advanced"),
      Below({}, {"intelligence:learning:"}, "intelligence:learning"),
      Below({}, {"intelligence:"}, "intelligence"),
      Below({}, {"proxy:#:"}, "proxy:#"),
      Below({}, {"proxy:"}, "proxies:list"),
      Below({}, {"proxies:"}, "proxies"),
      Below({"accounts:add", "accounts:add:model:#", "accounts:add:model:#:platform:@"},
            {"setup:wizard:model", "model:"}, "setup_progress"),
      Below({}, {"accounts:", "account:"}, "accounts"),
      Below({}, {"opportunities:", "opportunity:", "opportunity_prediction:"},
            "opportunities"),
      Below({}, {"recovery:"}, "recovery_center"),
      Below({}, {"platforms:notifications:", "platforms:alert_"}, "platforms:notifications"),
      Below({}, {"platforms:"}, "platforms"),
      Below({"search:details", "search:run", "search:opportunity",
            "search:platform_signals", "search:coo_context", "search:history", "search:settings"},
            {}, "search"),
      Below({"search:history:rerun"}, {"search:results"}, "search:history"),
      Below({"ai_brain:details", "ai_brain:settings", "ai_brain:critic",
            "ai_brain:evidence", "ai_brain:search", "ai_brain:coo", "ai_brain:opportunity"}, {},
            "ai_brain"),
      Below({}, {"agency_awareness:"}, "agency_awareness"),
      Below({}, {"reliability:"}, "reliability"),
      Below({}, {"team_intelligence:"}, "team_intelligence"),
      Below({}, {"notification_", "notification:"}, "settings"),
      Below({"integrity", "integrity:details", "bot_status", "bot_instance_status"}, {},
            "production_observability")>>

parent_page_for(page) ==
    LET parents == {rule.parent : rule \in FirstRule(parent_rules, page)}
    IN IF parents = {} THEN "menu" ELSE CHOOSE parent \in parents : TRUE

\* What the scan of the buttons opens: the pages of the smoke test it takes for safe.
smoke_pages ==
    {"accounts", "accounts:attention", "accounts:by_model", "accounts:by_platform",
     "accounts:list", "agency_activation", "agency_awareness", "agency_awareness:active",
     "agency_awareness:missing", "agency_awareness:not_connected", "ai_brain",
     "ai_brain:critic", "ai_brain:details", "ai_brain:settings", "assistant_next",
     "button_health", "callback_failure_review", "callback_failure_review:details",
     "callback_failure_review:history", "callback_failure_review:problems", "command_center",
     "command_center:admin", "command_center:intelligence", "command_center:operations",
     "command_center:score:@", "command_center:scores", "command_center:systems",
     "coo:briefing", "coo:readiness", "debug_last_error", "decision:review",
     "decision:review:details", "decision:timeline", "drift", "drift:active", "drift:add",
     "drift:details", "drift:plans", "drift:resolved", "evidence:notes",
     "evidence:notes:record", "first_workspace", "help", "help_copilot",
     "intelligence:quality", "intelligence:quality:categories",
     "intelligence:quality:details", "intelligence:quality:trends",
     "intelligence:quality:trends:details", "knowledge:memory", "menu", "models",
     "models:dashboard", "models:list", "notification_group_pilot",
     "notification_group_setup", "notification_routing", "notification_targets",
     "opportunities", "opportunities:command", "opportunities:creators",
     "opportunities:list", "opportunities:posts", "owner_advanced", "owner_validation:@",
     "platforms", "platforms:@", "platforms:@:connection", "platforms:@:stats",
     "platforms:alert_health", "platforms:alert_health:details", "platforms:alert_routing",
     "platforms:details", "platforms:notifications", "platforms:notifications:@",
     "prediction:feedback:@", "prediction:outcome:@", "prediction:preview",
     "prediction:preview:details", "production_observability", "production_status",
     "proxies", "proxies:add", "proxies:advanced", "proxies:entry_check", "proxies:list",
     "proxies:missing", "proxies:olympix", "proxies:olympix:manual", "proxies:olympix:paste",
     "proxies:real_check_pilot", "reality:accuracy", "reality:calibration", "reality:check",
     "reality:check:details", "reality:outcomes", "recovery:history",
     "recovery:restore:test", "recovery:storage", "recovery:storage:@", "recovery_center",
     "reliability", "reliability:details", "reliability:history", "reliability:jobs",
     "reliability:slow", "reliability:verify", "search", "search:history", "search:settings",
     "settings", "setup_progress", "start_here", "today_priorities", "ui_self_test"}

=============================================================================
